---- MODULE Spec2Model ----
(***************************************************************************)
(* Travel matrix construction (old_progress/src/data/travel_matrix).       *)
(*                                                                         *)
(* Numbers: minutes and miles are fixed-point, in hundredths (8550 is      *)
(* 85.50).  A ZIP code is the sequence of its characters, each digit being *)
(* the number it shows, so "01001" is <<0,1,0,0,1>>.  A DataFrame is a     *)
(* record [columns, rows], its rows in index order (a RangeIndex, so the   *)
(* label of row i is its position).                                        *)
(***************************************************************************)
EXTENDS Integers, Sequences, FiniteSets, TLC

VARIABLES
  pc,               \* where build_travel_matrix stands
  error,            \* the exception that ended the build, "" when none
  provider_file,    \* data/processed/ca_providers_filtered.csv
  demand_file,      \* data/processed/ca_demand_filtered.csv
  academic_file,    \* data/external/travel_matrices/academic_travel_matrix.csv
  output_files,     \* the files _save_matrix has written under output_dir
  zip_db,           \* self.zip_db.coordinates
  min_coverage,     \* self.min_coverage, in percent
  provider_data,    \* self.provider_data
  demand_data,      \* self.demand_data
  academic_matrix,  \* self.academic_matrix
  final_matrix,     \* self.final_matrix
  target_matrix,    \* build_travel_matrix's local target_matrix
  missing_index,    \* _fill_with_osrm_data: the labels its loop has still to visit
  rng_seed,         \* which sequence the seeded generator yields
  rng_pos,          \* how many normal draws were taken since the last seed
  filled_by,        \* history: per row of target_matrix, the phase that set it
  est_distance,     \* estimateMinutes alone: the distance,
  est_noise,        \*   the perturbation drawn,
  est_minutes,      \*   and the value returned
  args,             \* a function called by itself: its arguments,
  result            \*   and what it returned

buildvars == <<pc, error, provider_file, demand_file, academic_file, output_files,
               zip_db, min_coverage, provider_data, demand_data, academic_matrix,
               final_matrix, target_matrix, missing_index, rng_seed, rng_pos,
               filled_by>>

estvars == <<est_distance, est_noise, est_minutes>>

callvars == <<args, result>>

vars == <<buildvars, estvars, callvars>>

(***************************************************************************)
(* Bounds of the model.                                                    *)
(***************************************************************************)
MaxProviders == 2
MaxDemand == 2
MaxRows == 3
MaxCentroids == 2
MaxBuilds == 2
MaxCalls == 3
MaxStatewidePairs == 5
\* batch_size of generate_statewide_travel_matrix.main is 100000: the model's
\* batches hold batch_size pairs, and a run has up to MaxStatewidePairs pairs.
batch_size == 2
MaxPairs == 2
MaxReferenceProviders == 2
MaxLookups == 2
MaxMiles == 700

(***************************************************************************)
(* Values.                                                                 *)
(***************************************************************************)
\* np.nan, the unset travel time and the blank NPI cell.
NaN == -999999

None == [none |-> TRUE]

isna(v) == v = NaN

notna(v) == v # NaN

DataFrame(cols, rows) == [columns |-> cols, rows |-> rows]

\* Python's max(a, b) and min(a, b): the first argument stays unless the
\* second compares greater (smaller); every comparison with NaN is false.
py_max(a, b) == IF notna(a) /\ notna(b) /\ b > a THEN b ELSE a

py_min(a, b) == IF notna(a) /\ notna(b) /\ b < a THEN b ELSE a

SeqsUpTo(S, n) == UNION {[1..k -> S] : k \in 0..n}

Range(s) == {s[i] : i \in 1..Len(s)}

\* str.zfill(width)
zfill(s, width) ==
  IF Len(s) >= width THEN s ELSE [i \in 1..(width - Len(s)) |-> 0] \o s

\* s[:n]
str_prefix(s, n) == SubSeq(s, 1, IF Len(s) < n THEN Len(s) ELSE n)

\* Series.unique() / DataFrame.drop_duplicates(): first occurrences, in order.
\* pandas counts two NaN cells as the same value here.
RECURSIVE drop_duplicates(_)
drop_duplicates(s) ==
  IF s = <<>> THEN <<>>
  ELSE LET front == drop_duplicates(SubSeq(s, 1, Len(s) - 1))
           last == s[Len(s)]
       IN IF last \in Range(front) THEN front ELSE Append(front, last)

(***************************************************************************)
(* ZipCoordinatesDB.                                                       *)
(***************************************************************************)
\* A centroid file: its column layout and its rows; pd.read_csv(dtype=str)
\* reads every cell as a string.
CentroidRows ==
  << [zip |-> <<9,2,1,7,3>>, lat |-> 33, lon |-> -117],
     [zip |-> <<9,5,5,3,1>>, lat |-> 42, lon |-> -124] >>

CentroidFiles ==
  { [layout |-> "ZCTA5", rows |-> CentroidRows],
    [layout |-> "zip", rows |-> CentroidRows] }

\* __init__: dict(zip(keys, zip(lat, lon))): a later row replaces an earlier
\* one with the same key.  The ZCTA5 and GEOID layouts pad the key and convert
\* the coordinates to float; the zip layout keeps the key and the strings.
ZipCoordinatesDB(file) ==
  LET key(r) == IF file.layout \in {"ZCTA5", "GEOID"} THEN zfill(r.zip, 5) ELSE r.zip
      keys == {key(file.rows[i]) : i \in 1..Len(file.rows)}
      last(k) == CHOOSE i \in 1..Len(file.rows) :
                   /\ key(file.rows[i]) = k
                   /\ \A j \in (i + 1)..Len(file.rows) : key(file.rows[j]) # k
  IN [k \in keys |->
        [lat |-> file.rows[last(k)].lat,
         lon |-> file.rows[last(k)].lon,
         is_float |-> file.layout \in {"ZCTA5", "GEOID"}]]

\* get_coordinates: self.coordinates.get(str(zip_code).zfill(5))
get_coordinates(coordinates, zip_code) ==
  LET clean_zip == zfill(zip_code, 5)
  IN IF clean_zip \in DOMAIN coordinates THEN coordinates[clean_zip] ELSE None

\* The batch lookup whose result is keyed by the padded ZIP.
batch_get_coordinates_clean_keys(coordinates, zip_codes) ==
  LET found == {i \in 1..Len(zip_codes) :
                  get_coordinates(coordinates, zip_codes[i]) # None}
  IN [k \in {zfill(zip_codes[i], 5) : i \in found} |-> get_coordinates(coordinates, k)]

\* batch_get_coordinates: results[str(zip_code)] = coords for every zip_code
\* whose coords are truthy; a tuple of two is.
batch_get_coordinates(coordinates, zip_codes) ==
  LET found == {i \in 1..Len(zip_codes) :
                  get_coordinates(coordinates, zip_codes[i]) # None}
  IN [k \in {zip_codes[i] : i \in found} |-> get_coordinates(coordinates, k)]

(***************************************************************************)
(* The seeded generator.  np.random.seed(42) fixes the sequence of         *)
(* standard normal draws; np.random.normal(0, scale) is scale times the    *)
(* next one.  The model lets the fixed sequence be any rotation of ZValues *)
(* (hundredths of a standard deviation), chosen once in rng_seed.          *)
(***************************************************************************)
ZValues == <<-300, 50, 300>>

standard_normal(seed, pos) == ZValues[((seed + pos) % Len(ZValues)) + 1]

\* np.random.normal(0, scale), in hundredths of a minute
normal(scale, z) == scale * z

(***************************************************************************)
(* TravelMatrixBuilder._calculate_distance: the haversine formula, in      *)
(* fixed point (angles and sines in 1e-4, the haversine a in 1e-8).        *)
(* Division truncates towards zero so that f(-x) = -f(x) as in floating    *)
(* point.                                                                  *)
(***************************************************************************)
tdiv(a, b) == IF a < 0 THEN -((-a) \div b) ELSE a \div b

\* np.radians, degrees to 1e-4 radians
radians(deg) == tdiv(deg * 174533, 1000)

fsin(x) ==
  LET x2 == tdiv(x * x, 10000)
      x3 == tdiv(x2 * x, 10000)
      x5 == tdiv(x3 * x2, 10000)
  IN x - tdiv(x3, 6) + tdiv(x5, 120)

fcos(x) ==
  LET x2 == tdiv(x * x, 10000)
      x4 == tdiv(x2 * x2, 10000)
      x6 == tdiv(x4 * x2, 10000)
  IN 10000 - tdiv(x2, 2) + tdiv(x4, 24) - tdiv(x6, 720)

RECURSIVE isqrt_between(_, _, _)
isqrt_between(n, lo, hi) ==
  IF lo >= hi THEN lo
  ELSE LET mid == (lo + hi + 1) \div 2
       IN IF mid * mid <= n THEN isqrt_between(n, mid, hi)
          ELSE isqrt_between(n, lo, mid - 1)

\* np.sqrt of a (1e-8), in 1e-4
fsqrt(a) == isqrt_between(a, 0, 10001)

farcsin(y) ==
  LET y2 == tdiv(y * y, 10000)
      y3 == tdiv(y2 * y, 10000)
      y5 == tdiv(y3 * y2, 10000)
  IN y + tdiv(y3, 6) + tdiv(3 * y5, 40)

\* The formula with cos(lat1) taken twice.
_calculate_distance_cos_lat1(coords1, coords2) ==
  LET lat1 == radians(coords1.lat)
      lon1 == radians(coords1.lon)
      lat2 == radians(coords2.lat)
      lon2 == radians(coords2.lon)
      dlat == lat2 - lat1
      dlon == lon2 - lon1
      sdlat == fsin(tdiv(dlat, 2))
      sdlon == fsin(tdiv(dlon, 2))
      a == sdlat * sdlat
           + tdiv(tdiv(fcos(lat1) * fcos(lat1), 10000), 10) * tdiv(sdlon * sdlon, 1000)
      c == 2 * farcsin(fsqrt(a))
  IN tdiv(c * 3959, 100)

\* Distance in hundredths of a mile; the Earth's radius r is 3959 miles.
_calculate_distance(coords1, coords2) ==
  LET lat1 == radians(coords1.lat)
      lon1 == radians(coords1.lon)
      lat2 == radians(coords2.lat)
      lon2 == radians(coords2.lon)
      dlat == lat2 - lat1
      dlon == lon2 - lon1
      sdlat == fsin(tdiv(dlat, 2))
      sdlon == fsin(tdiv(dlon, 2))
      a == sdlat * sdlat
           + tdiv(tdiv(fcos(lat1) * fcos(lat2), 10000), 10) * tdiv(sdlon * sdlon, 1000)
      c == 2 * farcsin(fsqrt(a))
  IN tdiv(c * 3959, 100)

(***************************************************************************)
(* generate_statewide_travel_matrix.haversine: the same formula on the     *)
(* difference of the degrees, with atan2, R = 3958.8 miles and the road    *)
(* factor 1.15.                                                            *)
(***************************************************************************)
\* atan of t (1e-4), in 1e-4 radians
fatan(t) ==
  LET t2 == tdiv(t * t, 10000)
      t3 == tdiv(t2 * t, 10000)
      t5 == tdiv(t3 * t2, 10000)
  IN t - tdiv(t3, 3) + tdiv(t5, 5)

\* math.atan2(y, x) for x > 0
fatan2(y, x) == fatan(tdiv(y * 10000, x))

\* Distance in hundredths of a mile.
haversine(lat1, lon1, lat2, lon2) ==
  LET dlat == radians(lat2 - lat1)
      dlon == radians(lon2 - lon1)
      sdlat == fsin(tdiv(dlat, 2))
      sdlon == fsin(tdiv(dlon, 2))
      a == sdlat * sdlat
           + tdiv(tdiv(fcos(radians(lat1)) * fcos(radians(lat2)), 10000), 10)
               * tdiv(sdlon * sdlon, 1000)
      c == 2 * fatan2(fsqrt(a), fsqrt(100000000 - a))
  IN tdiv(tdiv(c * 39588, 1000) * 115, 100)

(***************************************************************************)
(* TravelMatrixBuilder._estimate_travel_time and its fallback.             *)
(***************************************************************************)
\* The tiers with each boundary distance in the upper tier.
speed_tier_exclusive(distance) ==
  IF isna(distance) THEN NaN
  ELSE IF distance < 5000 THEN (distance * 171) \div 100
  ELSE IF distance < 15000 THEN (distance * 109) \div 100
  ELSE IF distance < 30000 THEN (distance * 92) \div 100
  ELSE (((distance * 100) \div 100) * 110) \div 100

\* The tiers with the regional tier ending at 100 miles.
speed_tier_regional_100(distance) ==
  IF isna(distance) THEN NaN
  ELSE IF distance <= 5000 THEN (distance * 171) \div 100
  ELSE IF distance <= 10000 THEN (distance * 109) \div 100
  ELSE IF distance <= 30000 THEN (distance * 92) \div 100
  ELSE (((distance * 100) \div 100) * 110) \div 100

\* One rate for every distance, the urban one.
speed_tier_urban_rate(distance) ==
  IF isna(distance) THEN NaN ELSE (distance * 171) \div 100

\* Lines 356-369: the distance-banded speed assumption.  Every comparison with
\* a NaN distance is false, which leaves the last branch.
speed_tier_minutes(distance) ==
  IF isna(distance) THEN NaN
  ELSE IF distance <= 5000 THEN (distance * 171) \div 100
  ELSE IF distance <= 15000 THEN (distance * 109) \div 100
  ELSE IF distance <= 30000 THEN (distance * 92) \div 100
  ELSE (((distance * 100) \div 100) * 110) \div 100

add_noise(travel_time, noise) ==
  IF isna(travel_time) THEN NaN ELSE travel_time + noise

\* Lines 373-374: max(5, travel_time), then min(600, travel_time).
clamp_no_ceiling(travel_time) == py_max(500, travel_time)

clamp_no_floor(travel_time) == py_min(60000, travel_time)

clamp_minutes(travel_time) == py_min(60000, py_max(500, travel_time))

\* Lines 355-376, the coordinate-resolved path from the distance on.
estimateMinutes(distance, noise) ==
  clamp_minutes(add_noise(speed_tier_minutes(distance), noise))

\* Line 399: what the fallback returns when one ZIP code is in California
\* and the other is not, in hundredths of a minute.
InterstateMinutes == 12000

\* str.startswith('9'): the first character alone.
is_ca_first_digit(zip) == Len(zip) >= 1 /\ zip[1] = 9

\* str.startswith(('90', '91', '92', '93', '94', '95', '96'))
is_ca(zip) == Len(zip) >= 2 /\ zip[1] = 9 /\ zip[2] \in 0..6

\* int(s): a ValueError on an empty string or a character that is no digit.
int_raises(s) == s = <<>> \/ \E i \in 1..Len(s) : s[i] \notin 0..9

RECURSIVE int_value(_)
int_value(s) ==
  IF s = <<>> THEN 0 ELSE 10 * int_value(SubSeq(s, 1, Len(s) - 1)) + s[Len(s)]

abs(x) == IF x < 0 THEN -x ELSE x

\* The fallback without lines 414-415, the clamp of the same-region estimate.
_fallback_no_clamp(origin_zip, dest_zip, z) ==
  LET origin_is_ca == is_ca(origin_zip)
      dest_is_ca == is_ca(dest_zip)
  IN IF ~origin_is_ca /\ ~dest_is_ca THEN [value |-> 18000, draws |-> 0]
     ELSE IF origin_is_ca # dest_is_ca THEN [value |-> 12000, draws |-> 0]
     ELSE IF int_raises(str_prefix(origin_zip, 2)) \/ int_raises(str_prefix(dest_zip, 2))
          THEN [value |-> 4500, draws |-> 0]
     ELSE LET origin_region == int_value(str_prefix(origin_zip, 2))
              dest_region == int_value(str_prefix(dest_zip, 2))
          IN [value |-> abs(origin_region - dest_region) * 10 * 150 + normal(10, z),
              draws |-> 1]

\* [value, draws]: the estimate and the number of normal draws it took.
_fallback_travel_time_estimation(origin_zip, dest_zip, z) ==
  LET origin_is_ca == is_ca(origin_zip)
      dest_is_ca == is_ca(dest_zip)
  IN IF ~origin_is_ca /\ ~dest_is_ca THEN [value |-> 18000, draws |-> 0]
     ELSE IF origin_is_ca # dest_is_ca THEN [value |-> InterstateMinutes, draws |-> 0]
     ELSE IF int_raises(str_prefix(origin_zip, 2)) \/ int_raises(str_prefix(dest_zip, 2))
          THEN [value |-> 4500, draws |-> 0]
     ELSE LET origin_region == int_value(str_prefix(origin_zip, 2))
              dest_region == int_value(str_prefix(dest_zip, 2))
          IN IF 90 <= origin_region /\ origin_region <= 96
                /\ 90 <= dest_region /\ dest_region <= 96
             THEN LET distance == abs(origin_region - dest_region) * 10
                      travel_time == distance * 150 + normal(10, z)
                  IN [value |-> py_min(12000, py_max(1000, travel_time)),
                      draws |-> 1]
             ELSE [value |-> 15000, draws |-> 0]

\* [raised, value, draws].  np.radians of a coordinate read as a string (the
\* zip,lat,lon layout) raises a TypeError.
_estimate_travel_time(coordinates, origin_zip, dest_zip, z) ==
  LET origin_coords == get_coordinates(coordinates, zfill(origin_zip, 5))
      dest_coords == get_coordinates(coordinates, zfill(dest_zip, 5))
  IN IF origin_coords = None \/ dest_coords = None
     THEN LET fb == _fallback_travel_time_estimation(origin_zip, dest_zip, z)
          IN [raised |-> "", value |-> fb.value, draws |-> fb.draws]
     ELSE IF ~origin_coords.is_float \/ ~dest_coords.is_float
          THEN [raised |-> "TypeError", value |-> NaN, draws |-> 0]
     ELSE [raised |-> "",
           value |-> estimateMinutes(_calculate_distance(origin_coords, dest_coords),
                                     normal(5, z)),
           draws |-> 1]

(***************************************************************************)
(* The input files.                                                        *)
(***************************************************************************)
NPIs == {1, 2, NaN}

\* Cells of the zip_code columns as pd.read_csv reads them: a ZIP with
\* coordinates, a ZIP+4 without, a distant ZIP with coordinates, and 01001,
\* which an integer column holds as 1001.
ProviderZips == {<<9,2,1,7,3>>, <<9,3,9,9,9,1,2,3,4>>}

DemandZips == {<<9,5,5,3,1>>, <<1,0,0,1>>}

AbsentFile == [exists |-> FALSE, columns |-> {}, rows |-> <<>>]

ProviderFiles ==
  {AbsentFile,
   [exists |-> TRUE, columns |-> {"zip_code"}, rows |-> <<[zip_code |-> <<9,2,1,7,3>>]>>]}
  \cup {[exists |-> TRUE, columns |-> {"provider_npi", "zip_code"}, rows |-> r] :
          r \in SeqsUpTo([provider_npi : NPIs, zip_code : ProviderZips], MaxProviders)}

DemandFiles ==
  {AbsentFile,
   [exists |-> TRUE, columns |-> {"zip_code"}, rows |-> <<[zip_code |-> <<9,5,5,3,1>>]>>]}
  \cup {[exists |-> TRUE, columns |-> {"zip_code", "demand_score"}, rows |-> r] :
          r \in SeqsUpTo([zip_code : DemandZips, demand_score : {1}], MaxDemand)}

AcademicFiles ==
  {AbsentFile,
   [exists |-> TRUE,
    columns |-> {"origin_zip", "destination_zip", "travel_time_minutes"},
    rows |-> <<[origin_zip |-> <<9,2,1,7,3>>, destination_zip |-> <<9,5,5,3,1>>,
                travel_time_minutes |-> 45000]>>]}

MinCoverages == {95, 101}

(***************************************************************************)
(* Phase 1: load_provider_data, load_demand_data, download_academic_dataset*)
(***************************************************************************)
\* [raised, data]: self.provider_data is assigned what read_csv returns before
\* the columns are validated.
load_provider_data(file) ==
  IF ~file.exists THEN [raised |-> "FileNotFoundError", data |-> None]
  ELSE IF ~({"provider_npi", "zip_code"} \subseteq file.columns)
  THEN [raised |-> "ValueError", data |-> DataFrame(file.columns, file.rows)]
  ELSE [raised |-> "",
        data |-> DataFrame((file.columns \ {"provider_npi"}) \cup {"NPI"},
                           [i \in 1..Len(file.rows) |->
                              [NPI |-> file.rows[i].provider_npi,
                               zip_code |-> zfill(file.rows[i].zip_code, 5)]])]

\* load_demand_data without the validation of the required columns.
load_demand_data_unvalidated(file) ==
  IF ~file.exists THEN [raised |-> "FileNotFoundError", data |-> None]
  ELSE [raised |-> "", data |-> DataFrame(file.columns, file.rows)]

load_demand_data(file) ==
  IF ~file.exists THEN [raised |-> "FileNotFoundError", data |-> None]
  ELSE IF ~({"zip_code", "demand_score"} \subseteq file.columns)
  THEN [raised |-> "ValueError", data |-> DataFrame(file.columns, file.rows)]
  ELSE [raised |-> "",
        data |-> DataFrame((file.columns \ {"demand_score"}) \cup {"ensemble_demand_score"},
                           [i \in 1..Len(file.rows) |->
                              [zip_code |-> zfill(file.rows[i].zip_code, 5),
                               ensemble_demand_score |-> file.rows[i].demand_score]])]

RECURSIVE SetToSeq(_)
SetToSeq(S) ==
  IF S = {} THEN <<>>
  ELSE LET x == CHOOSE y \in S : TRUE IN <<x>> \o SetToSeq(S \ {x})

column(df, name) == [i \in 1..Len(df.rows) |-> df.rows[i][name]]

\* _create_placeholder_academic_matrix: min(1000, n * n) pairs drawn with
\* replacement from the ZIP codes of both rosters, the self-loops removed.
\* Which pairs the sample holds is the generator's choice: the model takes the
\* two ends, no pair left after the self-loops go or every pair drawn once.
placeholder_academic_matrix(providers, demand, dense) ==
  LET all_zips == Range(column(providers, "zip_code")) \cup Range(column(demand, "zip_code"))
      pairs == {p \in all_zips \X all_zips : dense /\ p[1] # p[2]}
      drawn == SetToSeq(pairs)
  IN DataFrame({"origin_zip", "destination_zip", "travel_time_minutes"},
               [i \in 1..Len(drawn) |->
                  [origin_zip |-> drawn[i][1], destination_zip |-> drawn[i][2],
                   travel_time_minutes |-> 3000]])

download_academic_dataset(file, providers, demand, dense) ==
  IF file.exists THEN DataFrame(file.columns, file.rows)
  ELSE placeholder_academic_matrix(providers, demand, dense)

(***************************************************************************)
(* Phase 2: _create_target_matrix.                                         *)
(***************************************************************************)
\* provider_info: the distinct (NPI, zip_5digit) rows of the roster.
provider_info(providers) ==
  drop_duplicates([i \in 1..Len(providers.rows) |->
                     [NPI |-> providers.rows[i].NPI,
                      zip_5digit |-> str_prefix(providers.rows[i].zip_code, 5)]])

\* [raised, matrix]: one row per row of provider_info and distinct demand ZIP,
\* the providers in the outer loop.
_create_target_matrix(providers, demand) ==
  IF providers = None \/ demand = None THEN [raised |-> "ValueError", matrix |-> None]
  ELSE LET info == provider_info(providers)
           demand_zips == drop_duplicates(column(demand, "zip_code"))
           n == Len(demand_zips)
       IN [raised |-> "",
           matrix |-> DataFrame({"zip_code", "provider_npi", "drive_minutes"},
                        [i \in 1..(Len(info) * n) |->
                           [zip_code |-> demand_zips[((i - 1) % n) + 1],
                            provider_npi |-> info[((i - 1) \div n) + 1].NPI,
                            drive_minutes |-> NaN]])]

(***************************************************************************)
(* Phase 3: _fill_with_academic_data.                                      *)
(***************************************************************************)
\* Logs a coverage of 0.0 and returns the matrix it was given.
_fill_with_academic_data(matrix, academic) == matrix

(***************************************************************************)
(* Phase 4: _fill_with_osrm_data.                                          *)
(***************************************************************************)
\* target_matrix[missing_mask].index
missing_labels(matrix, name) ==
  LET RECURSIVE pick(_)
      pick(i) == IF i > Len(matrix.rows) THEN <<>>
                 ELSE IF isna(matrix.rows[i][name]) THEN <<i>> \o pick(i + 1)
                 ELSE pick(i + 1)
  IN pick(1)

\* self.provider_data[self.provider_data['NPI'] == provider_npi]: a NaN equals
\* nothing, itself included.
provider_rows(providers, provider_npi) ==
  SelectSeq(providers.rows, LAMBDA r : notna(r.NPI) /\ notna(provider_npi) /\ r.NPI = provider_npi)

\* target_matrix.loc[idx, 'drive_minutes'] = travel_time
write_column(matrix, idx, travel_time) ==
  [matrix EXCEPT !.rows = [i \in 1..Len(matrix.rows) |-> [matrix.rows[i] EXCEPT !.drive_minutes = travel_time]]]

set_drive_minutes(matrix, idx, travel_time) ==
  [matrix EXCEPT !.rows[idx].drive_minutes = travel_time]

\* One pass of the loop of lines 308-321 for label idx: [raised, matrix, draws].
fill_one(matrix, idx, providers, coordinates, z) ==
  LET row == matrix.rows[idx]
      found == IF providers = None THEN <<>> ELSE provider_rows(providers, row.provider_npi)
  IN IF found = <<>> THEN [raised |-> "", matrix |-> matrix, draws |-> 0]
     ELSE LET provider_zip == str_prefix(found[1].zip_code, 5)
              est == _estimate_travel_time(coordinates, provider_zip, row.zip_code, z)
          IN IF est.raised # "" THEN [raised |-> est.raised, matrix |-> matrix, draws |-> 0]
             ELSE [raised |-> "",
                   matrix |-> set_drive_minutes(matrix, idx, est.value),
                   draws |-> est.draws]

(***************************************************************************)
(* Phase 5: _interpolate_remaining_gaps.                                   *)
(***************************************************************************)
\* The labels of a frame's rows: its index, a RangeIndex when the frame was
\* built without one.
RangeIndex(n) == [p \in 1..n |-> p - 1]

index_of(matrix) ==
  IF "index" \in DOMAIN matrix THEN matrix.index ELSE RangeIndex(Len(matrix.rows))

\* The positions 1..n that pass a test, in order.
positions_where(n, test) == SelectSeq([p \in 1..n |-> p], LAMBDA p : test[p])

\* result_matrix['travel_time_minutes'].isna() and .notna(), by position
missing_mask(matrix) ==
  [p \in 1..Len(matrix.rows) |-> isna(matrix.rows[p].travel_time_minutes)]

\* A mask that takes every row for known.
known_mask_every_row(matrix) ==
  [p \in 1..Len(matrix.rows) |-> TRUE]

known_mask(matrix) ==
  [p \in 1..Len(matrix.rows) |-> notna(matrix.rows[p].travel_time_minutes)]

\* features[mask], features a frame of n rows with a fresh RangeIndex and mask
\* a boolean Series labelled by index: pandas reindexes the mask to the
\* frame's labels, an IndexingError when a label of the frame is not in it.
\* [raised, positions]: the positions of features selected.
boolean_index(n, index, mask) ==
  IF index = RangeIndex(n)
  THEN [raised |-> "", positions |-> positions_where(n, mask)]
  ELSE IF \E p \in 1..n : (p - 1) \notin Range(index)
  THEN [raised |-> "IndexingError", positions |-> <<>>]
  ELSE [raised |-> "",
        positions |-> positions_where(n,
                        [p \in 1..n |-> mask[CHOOSE q \in 1..n : index[q] = p - 1]])]

\* The frames on which the feature space has one dimension: every row has the
\* same origin_zip, the destination ZIPs differ in their first two digits
\* only, and no destination prefix is below the origin's.
one_feature_frame(matrix) ==
  \A p, q \in 1..Len(matrix.rows) :
    LET r == matrix.rows[p]
        t == matrix.rows[q]
    IN /\ r.origin_zip = t.origin_zip
       /\ SubSeq(r.destination_zip, 3, Len(r.destination_zip))
            = SubSeq(t.destination_zip, 3, Len(t.destination_zip))
       /\ int_value(str_prefix(r.origin_zip, 2))
            <= int_value(str_prefix(r.destination_zip, 2))

\* _create_zip_features, [raised, features]: .astype(int) raises a ValueError
\* on the empty slice of a ZIP of fewer than five characters and on a slice
\* that is no number.  On a one_feature_frame the columns StandardScaler does
\* not reduce to 0 are dest_zip_1 and zip_diff_1, the same multiple of the
\* destination prefix: a row's features are that prefix, and the distance of
\* two rows in feature space is a fixed multiple of the prefixes' difference.
_create_zip_features(matrix) ==
  CASE ~({"origin_zip", "destination_zip"} \subseteq matrix.columns) ->
         [raised |-> "KeyError", features |-> <<>>]
    [] /\ {"origin_zip", "destination_zip"} \subseteq matrix.columns
       /\ \E p \in 1..Len(matrix.rows) :
            \/ Len(matrix.rows[p].origin_zip) < 5
            \/ Len(matrix.rows[p].destination_zip) < 5
            \/ int_raises(matrix.rows[p].origin_zip)
            \/ int_raises(matrix.rows[p].destination_zip) ->
         [raised |-> "ValueError", features |-> <<>>]
    [] /\ {"origin_zip", "destination_zip"} \subseteq matrix.columns
       /\ \A p \in 1..Len(matrix.rows) :
            /\ Len(matrix.rows[p].origin_zip) >= 5
            /\ Len(matrix.rows[p].destination_zip) >= 5
            /\ ~int_raises(matrix.rows[p].origin_zip)
            /\ ~int_raises(matrix.rows[p].destination_zip)
       /\ one_feature_frame(matrix) ->
         [raised |-> "",
          features |-> [p \in 1..Len(matrix.rows) |->
                          int_value(str_prefix(matrix.rows[p].destination_zip, 2))]]

\* The sum of f over S.
RECURSIVE sum_over(_, _)
sum_over(f, S) ==
  IF S = {} THEN 0
  ELSE LET j == CHOOSE j \in S : TRUE IN f[j] + sum_over(f, S \ {j})

\* np.average(values, weights=1 / (distances + 1e-6)) over the positions J:
\* NaN when a value is NaN; a point at distance 0 weighs a million times the
\* others, which leaves the mean of the values at distance 0.
weighted_average(J, value, distance) ==
  LET zero == {j \in J : distance[j] = 0}
      weight(j) == 1000 \div distance[j]
  IN IF \E j \in J : isna(value[j]) THEN NaN
     ELSE IF zero # {}
     THEN sum_over([j \in zero |-> value[j]], zero) \div Cardinality(zero)
     ELSE sum_over([j \in J |-> value[j] * weight(j)], J)
            \div sum_over([j \in J |-> weight(j)], J)

\* NearestNeighbors(n_neighbors=k).kneighbors: k of the fitted points with no
\* other fitted point nearer.
kneighbors(n_fitted, k, distance) ==
  IF n_fitted <= k THEN 1..n_fitted
  ELSE CHOOSE J \in SUBSET (1..n_fitted) :
         /\ Cardinality(J) = k
         /\ \A j \in J : \A o \in (1..n_fitted) \ J : distance[j] <= distance[o]

\* result_matrix['travel_time_minutes'] = value, the whole column.
set_travel_time_column(matrix, label, value) ==
  [matrix EXCEPT !.rows =
     [p \in 1..Len(matrix.rows) |->
        [matrix.rows[p] EXCEPT !.travel_time_minutes = value]]]

\* result_matrix.loc[label, 'travel_time_minutes'] = value, on every row that
\* carries the label.
set_travel_time(matrix, label, value) ==
  [matrix EXCEPT !.rows =
     [p \in 1..Len(matrix.rows) |->
        IF index_of(matrix)[p] = label
        THEN [matrix.rows[p] EXCEPT !.travel_time_minutes = value]
        ELSE matrix.rows[p]]]

\* result_matrix.loc[label, 'travel_time_minutes'], the labels being unique
travel_time_at(matrix, label) ==
  matrix.rows[CHOOSE p \in 1..Len(matrix.rows) : index_of(matrix)[p] = label]
    .travel_time_minutes

\* Lines 62-92 of nearest_neighbor_interpolation with k = 5: the features,
\* the neighbour search and the loop that fills the missing rows.  Line 83
\* reads the labels of the neighbours at known_mask.index[indices[i]],
\* indices[i] being positions among the known rows.
nearest_neighbor_fit(matrix) ==
  LET n == Len(matrix.rows)
      index == index_of(matrix)
      f == _create_zip_features(matrix)
      known == boolean_index(n, index, known_mask(matrix))
      missing == boolean_index(n, index, missing_mask(matrix))
      missing_indices == positions_where(n, missing_mask(matrix))
      n_known == Len(known.positions)
      RECURSIVE loop(_, _)
      loop(result_matrix, i) ==
        IF i > Len(missing_indices) THEN result_matrix
        ELSE LET query == f.features[missing.positions[i]]
                 distance(j) == abs(query - f.features[known.positions[j]])
                 J == kneighbors(n_known, py_min(5, n_known), [j \in 1..n_known |-> distance(j)])
                 value(j) == travel_time_at(result_matrix, index[j])
             IN loop(set_travel_time(result_matrix, index[missing_indices[i]],
                                     weighted_average(J, [j \in J |-> value(j)],
                                                      [j \in J |-> distance(j)])),
                     i + 1)
  IN IF f.raised # ""
     THEN [raised |-> f.raised, matrix |-> None, caller |-> matrix]
     ELSE IF known.raised # ""
     THEN [raised |-> known.raised, matrix |-> None, caller |-> matrix]
     ELSE IF n_known = 0
     THEN [raised |-> "ValueError", matrix |-> None, caller |-> matrix]
     ELSE [raised |-> "", matrix |-> loop(matrix, 1), caller |-> matrix]

\* The strategy without the return of lines 58-60.
nearest_neighbor_always_fits(matrix) ==
  IF "travel_time_minutes" \notin matrix.columns
  THEN [raised |-> "KeyError", matrix |-> None, caller |-> matrix]
  ELSE nearest_neighbor_fit(matrix)

\* InterpolationMethods.nearest_neighbor_interpolation,
\* [raised, matrix, caller]: the frame returned and the caller's frame after
\* the call.  The frame the builder passes has the columns zip_code,
\* provider_npi and drive_minutes.
nearest_neighbor_interpolation(matrix) ==
  IF "travel_time_minutes" \notin matrix.columns
  THEN [raised |-> "KeyError", matrix |-> None, caller |-> matrix]
  ELSE IF \A p \in 1..Len(matrix.rows) : ~missing_mask(matrix)[p]
  THEN [raised |-> "", matrix |-> matrix, caller |-> matrix]
  ELSE nearest_neighbor_fit(matrix)

\* _create_zip_coordinates, [raised, coords]: .astype(float) raises a
\* ValueError as .astype(int) does.  lat, the mean of the two ZIPs'
\* prefix + digits 3-4 / 100, and lon, the mean of -120 + (digits from the
\* fifth on) / 10, both in 1/200 of a degree.
_create_zip_coordinates(matrix) ==
  IF ~({"origin_zip", "destination_zip"} \subseteq matrix.columns)
  THEN [raised |-> "KeyError", coords |-> <<>>]
  ELSE IF \E p \in 1..Len(matrix.rows) :
            \/ Len(matrix.rows[p].origin_zip) < 5
            \/ Len(matrix.rows[p].destination_zip) < 5
            \/ int_raises(matrix.rows[p].origin_zip)
            \/ int_raises(matrix.rows[p].destination_zip)
  THEN [raised |-> "ValueError", coords |-> <<>>]
  ELSE LET lat100(zip) == 100 * int_value(SubSeq(zip, 1, 2)) + int_value(SubSeq(zip, 3, 4))
           lon10(zip) == -1200 + int_value(SubSeq(zip, 5, Len(zip)))
       IN [raised |-> "",
           coords |-> [p \in 1..Len(matrix.rows) |->
             [lat |-> lat100(matrix.rows[p].origin_zip)
                        + lat100(matrix.rows[p].destination_zip),
              lon |-> 10 * (lon10(matrix.rows[p].origin_zip)
                              + lon10(matrix.rows[p].destination_zip))]]]

\* The first of the positions 1..n with the least distance: argmin.
argmin(n, distance) ==
  CHOOSE j \in 1..n :
    /\ \A o \in 1..n : distance[j] <= distance[o]
    /\ \A o \in 1..(j - 1) : distance[o] > distance[j]

\* InterpolationMethods.spatial_weighting_interpolation with
\* max_distance = 100, [raised, matrix, caller].  A distance is
\* sqrt(dlat^2 + dlon^2) * 69 miles: at most 100 when the square of the
\* distance in 1/200 of a degree is at most (20000 / 69)^2, 84015.
spatial_weighting_interpolation(matrix) ==
  CASE "travel_time_minutes" \notin matrix.columns ->
         [raised |-> "KeyError", matrix |-> None, caller |-> matrix]
    [] /\ "travel_time_minutes" \in matrix.columns
       /\ \A p \in 1..Len(matrix.rows) : ~missing_mask(matrix)[p] ->
         [raised |-> "", matrix |-> matrix, caller |-> matrix]
    [] /\ "travel_time_minutes" \in matrix.columns
       /\ \E p \in 1..Len(matrix.rows) : missing_mask(matrix)[p] ->
         LET n == Len(matrix.rows)
             index == index_of(matrix)
             c == _create_zip_coordinates(matrix)
             known == positions_where(n, known_mask(matrix))
             missing_indices == positions_where(n, missing_mask(matrix))
             known_value(j) == matrix.rows[known[j]].travel_time_minutes
             RECURSIVE loop(_, _)
             loop(result_matrix, i) ==
               IF i > Len(missing_indices) THEN result_matrix
               ELSE LET here == c.coords[missing_indices[i]]
                        square(j) == (c.coords[known[j]].lat - here.lat)
                                       * (c.coords[known[j]].lat - here.lat)
                                     + (c.coords[known[j]].lon - here.lon)
                                         * (c.coords[known[j]].lon - here.lon)
                        distance(j) == isqrt_between(square(j), 0, 40000)
                        within_range == {j \in 1..Len(known) : square(j) <= 84015}
                        interpolated_value ==
                          IF within_range # {}
                          THEN weighted_average(within_range,
                                                [j \in within_range |-> known_value(j)],
                                                [j \in within_range |-> distance(j)])
                          ELSE known_value(argmin(Len(known), [j \in 1..Len(known) |-> square(j)]))
                    IN loop(set_travel_time(result_matrix, index[missing_indices[i]],
                                            interpolated_value),
                            i + 1)
         IN IF c.raised # ""
            THEN [raised |-> c.raised, matrix |-> None, caller |-> matrix]
            ELSE IF known = <<>>
            THEN [raised |-> "ValueError", matrix |-> None, caller |-> matrix]
            ELSE [raised |-> "", matrix |-> loop(matrix, 1), caller |-> matrix]

\* InterpolationMethods.hierarchical_clustering_interpolation with
\* n_clusters = 10, [raised, matrix, caller], for at most 10 known rows:
\* AgglomerativeClustering raises a ValueError on fewer than two samples, and
\* with n_clusters = len(known_features) every known row is a cluster of its
\* own.  cluster_labels is fit_predict's numbering of them, cluster_labels[j]
\* the cluster of the j-th known row.
hierarchical_clustering_interpolation(matrix, cluster_labels) ==
  CASE "travel_time_minutes" \notin matrix.columns ->
         [raised |-> "KeyError", matrix |-> None, caller |-> matrix]
    [] /\ "travel_time_minutes" \in matrix.columns
       /\ \A p \in 1..Len(matrix.rows) : ~missing_mask(matrix)[p] ->
         [raised |-> "", matrix |-> matrix, caller |-> matrix]
    [] /\ "travel_time_minutes" \in matrix.columns
       /\ \E p \in 1..Len(matrix.rows) : missing_mask(matrix)[p]
       /\ Len(positions_where(Len(matrix.rows), known_mask(matrix))) <= 10 ->
         LET n == Len(matrix.rows)
             index == index_of(matrix)
             f == _create_zip_features(matrix)
             known == boolean_index(n, index, known_mask(matrix))
             missing == boolean_index(n, index, missing_mask(matrix))
             known_rows == positions_where(n, known_mask(matrix))
             missing_indices == positions_where(n, missing_mask(matrix))
             n_clusters == Len(known.positions)
             member(cluster_id) == CHOOSE j \in 1..n_clusters : cluster_labels[j] = cluster_id
             cluster_centers(cluster_id) == f.features[known.positions[member(cluster_id)]]
             cluster_values(cluster_id) ==
               matrix.rows[known_rows[member(cluster_id)]].travel_time_minutes
             RECURSIVE loop(_, _)
             loop(result_matrix, i) ==
               IF i > Len(missing_indices) THEN result_matrix
               ELSE LET missing_feature == f.features[missing.positions[i]]
                        distance(cluster_id) ==
                          abs(missing_feature - cluster_centers(cluster_id))
                        nearest_cluster == argmin(n_clusters, [j \in 1..n_clusters |-> distance(j)])
                    IN loop(set_travel_time(result_matrix, index[missing_indices[i]],
                                            cluster_values(nearest_cluster)),
                            i + 1)
         IN IF f.raised # ""
            THEN [raised |-> f.raised, matrix |-> None, caller |-> matrix]
            ELSE IF known.raised # ""
            THEN [raised |-> known.raised, matrix |-> None, caller |-> matrix]
            ELSE IF n_clusters < 2
            THEN [raised |-> "ValueError", matrix |-> None, caller |-> matrix]
            ELSE [raised |-> "", matrix |-> loop(matrix, 1), caller |-> matrix]

\* InterpolationMethods.machine_learning_interpolation,
\* [raised, matrix, caller].  predicted_values is what the fitted forest
\* predicts for the rows of missing_features, in order.
machine_learning_interpolation(matrix, predicted_values) ==
  CASE "travel_time_minutes" \notin matrix.columns ->
         [raised |-> "KeyError", matrix |-> None, caller |-> matrix]
    [] /\ "travel_time_minutes" \in matrix.columns
       /\ \A p \in 1..Len(matrix.rows) : ~missing_mask(matrix)[p] ->
         [raised |-> "", matrix |-> matrix, caller |-> matrix]
    [] /\ "travel_time_minutes" \in matrix.columns
       /\ \E p \in 1..Len(matrix.rows) : missing_mask(matrix)[p] ->
         LET n == Len(matrix.rows)
             index == index_of(matrix)
             f == _create_zip_features(matrix)
             known == boolean_index(n, index, known_mask(matrix))
             missing_indices == positions_where(n, missing_mask(matrix))
             RECURSIVE loop(_, _)
             loop(result_matrix, i) ==
               IF i > Len(missing_indices) THEN result_matrix
               ELSE loop(set_travel_time(result_matrix, index[missing_indices[i]],
                                         predicted_values[i]),
                         i + 1)
         IN IF f.raised # ""
            THEN [raised |-> f.raised, matrix |-> None, caller |-> matrix]
            ELSE IF known.raised # ""
            THEN [raised |-> known.raised, matrix |-> None, caller |-> matrix]
            ELSE IF known.positions = <<>>
            THEN [raised |-> "ValueError", matrix |-> None, caller |-> matrix]
            ELSE [raised |-> "", matrix |-> loop(matrix, 1), caller |-> matrix]

_interpolate_remaining_gaps(matrix) ==
  IF missing_labels(matrix, "drive_minutes") = <<>>
  THEN [raised |-> "", matrix |-> matrix]
  ELSE nearest_neighbor_interpolation(matrix)

(***************************************************************************)
(* Phase 6: _validate_matrix and _save_matrix.                             *)
(***************************************************************************)
count_set(matrix) == Len(SelectSeq(matrix.rows, LAMBDA r : notna(r.drive_minutes)))

\* coverage < min_coverage, coverage being 1 - isna().mean(): NaN on an empty
\* frame, and then the comparison is false.
coverage_below(matrix, min_cov) ==
  /\ Len(matrix.rows) > 0
  /\ count_set(matrix) * 100 < min_cov * Len(matrix.rows)

\* The correction with a ceiling as well: what lies above 300 set to 300.
correct_negative_and_high(matrix) ==
  [matrix EXCEPT !.rows =
     [i \in 1..Len(matrix.rows) |->
        IF notna(matrix.rows[i].drive_minutes) /\ matrix.rows[i].drive_minutes < 0
        THEN [matrix.rows[i] EXCEPT !.drive_minutes = 500]
        ELSE IF notna(matrix.rows[i].drive_minutes) /\ matrix.rows[i].drive_minutes > 30000
        THEN [matrix.rows[i] EXCEPT !.drive_minutes = 30000]
        ELSE matrix.rows[i]]]

\* Lines 493-496: matrix.loc[matrix['drive_minutes'] < 0, 'drive_minutes'] = 5.
correct_negative(matrix) ==
  [matrix EXCEPT !.rows =
     [i \in 1..Len(matrix.rows) |->
        IF notna(matrix.rows[i].drive_minutes) /\ matrix.rows[i].drive_minutes < 0
        THEN [matrix.rows[i] EXCEPT !.drive_minutes = 500]
        ELSE matrix.rows[i]]]

_validate_matrix_no_gate(matrix, min_cov) ==
  [raised |-> "", matrix |-> correct_negative(matrix)]

\* [raised, matrix]: the matrix is corrected in place.
_validate_matrix(matrix, min_cov) ==
  IF coverage_below(matrix, min_cov) THEN [raised |-> "ValueError", matrix |-> matrix]
  ELSE [raised |-> "", matrix |-> correct_negative(matrix)]

\* Series.nunique(): the distinct values, NaN not counted.
nunique(s) == Cardinality({v \in Range(s) : v # NaN})

known_values(matrix) == {matrix.rows[i].drive_minutes : i \in 1..Len(matrix.rows)} \ {NaN}

series_min(S) == IF S = {} THEN NaN ELSE CHOOSE v \in S : \A w \in S : v <= w

series_max(S) == IF S = {} THEN NaN ELSE CHOOSE v \in S : \A w \in S : v >= w

\* The files _save_matrix writes: the CSV, the parquet file when pyarrow can be
\* imported, and the summary.
_save_matrix(matrix, pyarrow) ==
  {[name |-> "travel_matrix.csv", content |-> matrix]}
  \cup (IF pyarrow THEN {[name |-> "travel_matrix.parquet", content |-> matrix]} ELSE {})
  \cup {[name |-> "travel_matrix_summary.json",
         content |-> [total_pairs |-> Len(matrix.rows),
                      set_pairs |-> count_set(matrix),
                      min_travel_time |-> series_min(known_values(matrix)),
                      max_travel_time |-> series_max(known_values(matrix)),
                      providers_count |-> nunique(column(matrix, "provider_npi")),
                      demand_areas_count |-> Cardinality(Range(column(matrix, "zip_code")))]]}

(***************************************************************************)
(* build_travel_matrix as a state machine: one action per call it makes,   *)
(* the loop of _fill_with_osrm_data one action per row.                    *)
(***************************************************************************)
NoError == [type |-> "", phase |-> ""]

Init ==
  /\ pc = "idle"
  /\ error = NoError
  /\ provider_file \in ProviderFiles
  /\ demand_file \in DemandFiles
  /\ academic_file \in AcademicFiles
  /\ output_files = {}
  /\ zip_db \in {ZipCoordinatesDB(f) : f \in CentroidFiles}
  /\ min_coverage \in MinCoverages
  /\ provider_data = None
  /\ demand_data = None
  /\ academic_matrix = None
  /\ final_matrix = None
  /\ target_matrix = None
  /\ missing_index = <<>>
  /\ rng_seed \in 0..(Len(ZValues) - 1)
  /\ rng_pos = 0
  /\ filled_by = <<>>
  /\ est_distance = NaN
  /\ est_noise = 0
  /\ est_minutes = NaN
  /\ args = None
  /\ result = None

Raise(phase, type) ==
  /\ pc' = "raised"
  /\ error' = [type |-> type, phase |-> phase]

Goto(phase) ==
  /\ pc' = phase
  /\ error' = error

Build ==
  /\ pc = "idle"
  /\ Goto("load_provider_data")
  /\ UNCHANGED <<provider_file, demand_file, academic_file, output_files, zip_db,
                 min_coverage, provider_data, demand_data, academic_matrix,
                 final_matrix, target_matrix, missing_index, rng_seed, rng_pos,
                 filled_by, estvars, callvars>>

LoadProviderData ==
  /\ pc = "load_provider_data"
  /\ LET r == load_provider_data(provider_file)
     IN /\ provider_data' = IF r.raised = "FileNotFoundError" THEN provider_data ELSE r.data
        /\ IF r.raised # "" THEN Raise("load_provider_data", r.raised)
           ELSE Goto("load_demand_data")
  /\ UNCHANGED <<provider_file, demand_file, academic_file, output_files, zip_db,
                 min_coverage, demand_data, academic_matrix, final_matrix,
                 target_matrix, missing_index, rng_seed, rng_pos, filled_by, estvars, callvars>>

LoadDemandData ==
  /\ pc = "load_demand_data"
  /\ LET r == load_demand_data(demand_file)
     IN /\ demand_data' = IF r.raised = "FileNotFoundError" THEN demand_data ELSE r.data
        /\ IF r.raised # "" THEN Raise("load_demand_data", r.raised)
           ELSE Goto("download_academic_dataset")
  /\ UNCHANGED <<provider_file, demand_file, academic_file, output_files, zip_db,
                 min_coverage, provider_data, academic_matrix, final_matrix,
                 target_matrix, missing_index, rng_seed, rng_pos, filled_by, estvars, callvars>>

DownloadAcademicDataset ==
  /\ pc = "download_academic_dataset"
  /\ \E dense \in BOOLEAN :
       academic_matrix' =
         download_academic_dataset(academic_file, provider_data, demand_data, dense)
  /\ Goto("_create_target_matrix")
  /\ UNCHANGED <<provider_file, demand_file, academic_file, output_files, zip_db,
                 min_coverage, provider_data, demand_data, final_matrix,
                 target_matrix, missing_index, rng_seed, rng_pos, filled_by, estvars, callvars>>

CreateTargetMatrix ==
  /\ pc = "_create_target_matrix"
  /\ LET r == _create_target_matrix(provider_data, demand_data)
     IN IF r.raised # ""
        THEN /\ Raise("_create_target_matrix", r.raised)
             /\ UNCHANGED <<target_matrix, filled_by>>
        ELSE /\ target_matrix' = r.matrix
             /\ filled_by' = [i \in 1..Len(r.matrix.rows) |-> ""]
             /\ Goto("_fill_with_academic_data")
  /\ UNCHANGED <<provider_file, demand_file, academic_file, output_files, zip_db,
                 min_coverage, provider_data, demand_data, academic_matrix,
                 final_matrix, missing_index, rng_seed, rng_pos, estvars, callvars>>

\* The phase behind each newly set entry of a matrix with the same rows.
newly_filled(before, after, by, phase) ==
  [i \in 1..Len(after.rows) |->
     IF i <= Len(before.rows) /\ i <= Len(by)
        /\ isna(before.rows[i].drive_minutes) /\ notna(after.rows[i].drive_minutes)
     THEN phase
     ELSE IF i <= Len(by) THEN by[i] ELSE ""]

FillWithAcademicData ==
  /\ pc = "_fill_with_academic_data"
  /\ target_matrix' = _fill_with_academic_data(target_matrix, academic_matrix)
  /\ filled_by' = newly_filled(target_matrix, target_matrix', filled_by, "authoritative")
  /\ Goto("_fill_with_osrm_data")
  /\ UNCHANGED <<provider_file, demand_file, academic_file, output_files, zip_db,
                 min_coverage, provider_data, demand_data, academic_matrix,
                 final_matrix, missing_index, rng_seed, rng_pos, estvars, callvars>>

\* The phase without np.random.seed(42): the draws go on from wherever the
\* generator stands.
FillWithOsrmData_unseeded ==
  /\ pc = "_fill_with_osrm_data"
  /\ LET missing == missing_labels(target_matrix, "drive_minutes")
     IN IF missing = <<>>
        THEN /\ Goto("_interpolate_remaining_gaps")
             /\ UNCHANGED <<missing_index, rng_pos>>
        ELSE /\ missing_index' = missing
             /\ rng_pos' = rng_pos
             /\ Goto("fill_loop")
  /\ UNCHANGED <<provider_file, demand_file, academic_file, output_files, zip_db,
                 min_coverage, provider_data, demand_data, academic_matrix,
                 final_matrix, target_matrix, rng_seed, filled_by, estvars, callvars>>

\* Lines 294-305: the mask, the early return, np.random.seed(42).
FillWithOsrmData ==
  /\ pc = "_fill_with_osrm_data"
  /\ LET missing == missing_labels(target_matrix, "drive_minutes")
     IN IF missing = <<>>
        THEN /\ Goto("_interpolate_remaining_gaps")
             /\ UNCHANGED <<missing_index, rng_pos>>
        ELSE /\ missing_index' = missing
             /\ rng_pos' = 0
             /\ Goto("fill_loop")
  /\ UNCHANGED <<provider_file, demand_file, academic_file, output_files, zip_db,
                 min_coverage, provider_data, demand_data, academic_matrix,
                 final_matrix, target_matrix, rng_seed, filled_by, estvars, callvars>>

\* Lines 308-321: one row of the loop; after the last one, the return.
FillLoop ==
  /\ pc = "fill_loop"
  /\ missing_index # <<>>
  /\ LET idx == Head(missing_index)
         r == fill_one(target_matrix, idx, provider_data, zip_db,
                       standard_normal(rng_seed, rng_pos))
     IN IF r.raised # ""
        THEN /\ Raise("_fill_with_osrm_data", r.raised)
             /\ UNCHANGED <<target_matrix, missing_index, rng_pos, filled_by>>
        ELSE /\ target_matrix' = r.matrix
             /\ filled_by' = newly_filled(target_matrix, r.matrix, filled_by, "computed")
             /\ missing_index' = Tail(missing_index)
             /\ rng_pos' = rng_pos + r.draws
             /\ Goto(IF Tail(missing_index) = <<>> THEN "_interpolate_remaining_gaps"
                     ELSE "fill_loop")
  /\ UNCHANGED <<provider_file, demand_file, academic_file, output_files, zip_db,
                 min_coverage, provider_data, demand_data, academic_matrix,
                 final_matrix, rng_seed, estvars, callvars>>

InterpolateRemainingGaps ==
  /\ pc = "_interpolate_remaining_gaps"
  /\ LET r == _interpolate_remaining_gaps(target_matrix)
     IN IF r.raised # ""
        THEN /\ Raise("_interpolate_remaining_gaps", r.raised)
             /\ UNCHANGED <<target_matrix, filled_by>>
        ELSE /\ target_matrix' = r.matrix
             /\ filled_by' = newly_filled(target_matrix, r.matrix, filled_by, "interpolated")
             /\ Goto("_validate_matrix")
  /\ UNCHANGED <<provider_file, demand_file, academic_file, output_files, zip_db,
                 min_coverage, provider_data, demand_data, academic_matrix,
                 final_matrix, missing_index, rng_seed, rng_pos, estvars, callvars>>

ValidateMatrix ==
  /\ pc = "_validate_matrix"
  /\ LET r == _validate_matrix(target_matrix, min_coverage)
     IN /\ target_matrix' = r.matrix
        /\ IF r.raised # "" THEN Raise("_validate_matrix", r.raised)
           ELSE Goto("_save_matrix")
  /\ UNCHANGED <<provider_file, demand_file, academic_file, output_files, zip_db,
                 min_coverage, provider_data, demand_data, academic_matrix,
                 final_matrix, missing_index, rng_seed, rng_pos, filled_by, estvars, callvars>>

\* Lines 214-219: _save_matrix, self.final_matrix = target_matrix, the return.
SaveMatrix ==
  /\ pc = "_save_matrix"
  /\ \E pyarrow \in BOOLEAN :
       LET written == _save_matrix(target_matrix, pyarrow)
       IN output_files' =
            {f \in output_files : \A w \in written : w.name # f.name} \cup written
  /\ final_matrix' = target_matrix
  /\ Goto("returned")
  /\ UNCHANGED <<provider_file, demand_file, academic_file, zip_db, min_coverage,
                 provider_data, demand_data, academic_matrix, target_matrix,
                 missing_index, rng_seed, rng_pos, filled_by, estvars, callvars>>

Next ==
  \/ Build
  \/ LoadProviderData
  \/ LoadDemandData
  \/ DownloadAcademicDataset
  \/ CreateTargetMatrix
  \/ FillWithAcademicData
  \/ FillWithOsrmData
  \/ FillLoop
  \/ InterpolateRemainingGaps
  \/ ValidateMatrix
  \/ SaveMatrix

Spec == Init /\ [][Next]_vars

(***************************************************************************)
(* Load, Materialize and Computed fill run twice on the same files, the    *)
(* second time on the builder of the first run or on a new builder of the  *)
(* same process: result keeps the matrix of the first run.  The generator  *)
(* is the process's, and stands where the first run left it.               *)
(***************************************************************************)
InitRerun ==
  /\ Init
  /\ ~academic_file.exists
  /\ min_coverage = 95

\* build_travel_matrix's steps again, self.provider_data, self.demand_data
\* and self.academic_matrix still holding the first run's frames.
RerunOnSameBuilder ==
  /\ pc = "_interpolate_remaining_gaps"
  /\ result = None
  /\ result' = [first |-> target_matrix, builder |-> "same"]
  /\ pc' = "load_provider_data"
  /\ UNCHANGED <<error, provider_file, demand_file, academic_file, output_files,
                 zip_db, min_coverage, provider_data, demand_data, academic_matrix,
                 final_matrix, target_matrix, missing_index, rng_seed, rng_pos,
                 filled_by, estvars, args>>

\* The same on a builder that __init__ has just made.
RerunOnNewBuilder ==
  /\ pc = "_interpolate_remaining_gaps"
  /\ result = None
  /\ result' = [first |-> target_matrix, builder |-> "new"]
  /\ pc' = "load_provider_data"
  /\ provider_data' = None
  /\ demand_data' = None
  /\ academic_matrix' = None
  /\ target_matrix' = None
  /\ missing_index' = <<>>
  /\ filled_by' = <<>>
  /\ UNCHANGED <<error, provider_file, demand_file, academic_file, output_files,
                 zip_db, min_coverage, final_matrix, rng_seed, rng_pos, estvars, args>>

NextRerun ==
  \/ Build
  \/ LoadProviderData
  \/ LoadDemandData
  \/ DownloadAcademicDataset
  \/ CreateTargetMatrix
  \/ FillWithAcademicData
  \/ FillWithOsrmData
  \/ FillLoop
  \/ RerunOnSameBuilder
  \/ RerunOnNewBuilder

SpecRerun == InitRerun /\ [][NextRerun]_vars

(***************************************************************************)
(* _validate_matrix alone, on matrices of up to MaxRows rows whose travel  *)
(* times are unset, negative, small, 300, just above 300 or far above it.  *)
(* args keeps the matrix as it was handed over.                            *)
(***************************************************************************)
ValidateMinutes == {NaN, -100, 500, 30000, 30001, 45000}

ValidateFrames ==
  {DataFrame({"zip_code", "provider_npi", "drive_minutes"},
             [i \in 1..Len(minutes) |->
                [zip_code |-> <<9,2,1,7,3>>, provider_npi |-> i,
                 drive_minutes |-> minutes[i]]]) :
     minutes \in SeqsUpTo(ValidateMinutes, MaxRows)}

InitValidate ==
  /\ pc = "_validate_matrix"
  /\ error = NoError
  /\ provider_file = AbsentFile
  /\ demand_file = AbsentFile
  /\ academic_file = AbsentFile
  /\ output_files = {}
  /\ zip_db = ZipCoordinatesDB([layout |-> "ZCTA5", rows |-> CentroidRows])
  /\ min_coverage \in MinCoverages
  /\ provider_data = None
  /\ demand_data = None
  /\ academic_matrix = None
  /\ final_matrix = None
  /\ target_matrix \in ValidateFrames
  /\ missing_index = <<>>
  /\ rng_seed = 0
  /\ rng_pos = 0
  /\ filled_by = <<>>
  /\ est_distance = NaN
  /\ est_noise = 0
  /\ est_minutes = NaN
  /\ args = [matrix |-> target_matrix]
  /\ result = None

NextValidate == ValidateMatrix

SpecValidate == InitValidate /\ [][NextValidate]_vars

(***************************************************************************)
(* ZipCoordinatesDB alone: a centroid file of up to MaxCentroids rows in   *)
(* one of the three layouts __init__ recognizes, its ZIP cells written     *)
(* with or without their leading zero, then one get_coordinates or one     *)
(* batch_get_coordinates of up to MaxLookups codes.  args keeps the file   *)
(* and the argument.                                                       *)
(***************************************************************************)
CentroidCells ==
  [zip : {<<9,2,1,7,3>>, <<0,1,0,0,1>>, <<1,0,0,1>>}, lat : {33, 42}, lon : {-117}]

RecognizedCentroidFiles ==
  {[layout |-> layout, rows |-> rows] :
     layout \in {"ZCTA5", "GEOID", "zip"},
     rows \in SeqsUpTo(CentroidCells, MaxCentroids)}

LookupZips == {<<9,2,1,7,3>>, <<0,1,0,0,1>>, <<1,0,0,1>>, <<9,5,5,3,1>>}

InitZipDB ==
  /\ pc = "ZipCoordinatesDB"
  /\ error = NoError
  /\ provider_file = AbsentFile
  /\ demand_file = AbsentFile
  /\ academic_file = AbsentFile
  /\ output_files = {}
  /\ \E file \in RecognizedCentroidFiles :
       /\ zip_db = ZipCoordinatesDB(file)
       /\ args = [file |-> file]
  /\ min_coverage = 95
  /\ provider_data = None
  /\ demand_data = None
  /\ academic_matrix = None
  /\ final_matrix = None
  /\ target_matrix = None
  /\ missing_index = <<>>
  /\ rng_seed = 0
  /\ rng_pos = 0
  /\ filled_by = <<>>
  /\ est_distance = NaN
  /\ est_noise = 0
  /\ est_minutes = NaN
  /\ result = None

GetCoordinates ==
  /\ pc = "ZipCoordinatesDB"
  /\ \E zip_code \in LookupZips :
       /\ args' = [file |-> args.file, zip_code |-> zip_code]
       /\ result' = [coords |-> get_coordinates(zip_db, zip_code)]
  /\ pc' = "get_coordinates_done"
  /\ UNCHANGED <<error, provider_file, demand_file, academic_file, output_files,
                 zip_db, min_coverage, provider_data, demand_data, academic_matrix,
                 final_matrix, target_matrix, missing_index, rng_seed, rng_pos,
                 filled_by, estvars>>

BatchGetCoordinates ==
  /\ pc = "ZipCoordinatesDB"
  /\ \E zip_codes \in SeqsUpTo(LookupZips, MaxLookups) :
       /\ args' = [file |-> args.file, zip_codes |-> zip_codes]
       /\ result' = [results |-> batch_get_coordinates(zip_db, zip_codes)]
  /\ pc' = "batch_get_coordinates_done"
  /\ UNCHANGED <<error, provider_file, demand_file, academic_file, output_files,
                 zip_db, min_coverage, provider_data, demand_data, academic_matrix,
                 final_matrix, target_matrix, missing_index, rng_seed, rng_pos,
                 filled_by, estvars>>

NextZipDB == GetCoordinates \/ BatchGetCoordinates

SpecZipDB == InitZipDB /\ [][NextZipDB]_vars

(***************************************************************************)
(* estimateMinutes alone: every distance up to MaxMiles, the tier          *)
(* boundaries just crossed, a NaN distance, and perturbations of up to     *)
(* four standard deviations.                                               *)
(***************************************************************************)
EstimateDistances ==
  {100 * m : m \in 0..MaxMiles} \cup {5001, 15001, 30001} \cup {NaN}

EstimateNoises == {normal(5, 100 * k) : k \in -4..4}

InitEstimate ==
  /\ pc = "estimate"
  /\ error = NoError
  /\ provider_file = AbsentFile
  /\ demand_file = AbsentFile
  /\ academic_file = AbsentFile
  /\ output_files = {}
  /\ zip_db = ZipCoordinatesDB([layout |-> "ZCTA5", rows |-> CentroidRows])
  /\ min_coverage = 95
  /\ provider_data = None
  /\ demand_data = None
  /\ academic_matrix = None
  /\ final_matrix = None
  /\ target_matrix = None
  /\ missing_index = <<>>
  /\ rng_seed = 0
  /\ rng_pos = 0
  /\ filled_by = <<>>
  /\ est_distance \in EstimateDistances
  /\ est_noise \in EstimateNoises
  /\ est_minutes = NaN
  /\ args = None
  /\ result = None

Estimate ==
  /\ pc = "estimate"
  /\ est_minutes' = estimateMinutes(est_distance, est_noise)
  /\ pc' = "estimated"
  /\ UNCHANGED <<error, provider_file, demand_file, academic_file, output_files,
                 zip_db, min_coverage, provider_data, demand_data, academic_matrix,
                 final_matrix, target_matrix, missing_index, rng_seed, rng_pos,
                 filled_by, est_distance, est_noise, callvars>>

NextEstimate == Estimate

SpecEstimate == InitEstimate /\ [][NextEstimate]_vars

\* The state of a builder that no build has touched, for the specifications
\* that call one function by itself.
BuilderIdle ==
  /\ error = NoError
  /\ provider_file = AbsentFile
  /\ demand_file = AbsentFile
  /\ academic_file = AbsentFile
  /\ output_files = {}
  /\ zip_db = ZipCoordinatesDB([layout |-> "ZCTA5", rows |-> CentroidRows])
  /\ min_coverage = 95
  /\ provider_data = None
  /\ demand_data = None
  /\ academic_matrix = None
  /\ final_matrix = None
  /\ target_matrix = None
  /\ missing_index = <<>>
  /\ rng_seed = 0
  /\ rng_pos = 0
  /\ filled_by = <<>>
  /\ est_distance = NaN
  /\ est_noise = 0
  /\ est_minutes = NaN

(***************************************************************************)
(* The speed tiers alone (lines 356-369), on two distances: every fifth    *)
(* mile up to 5 * MaxTierSteps miles, the hundredths of a mile next to the *)
(* tier boundaries and the miles next above them.  The result holds travel_time before the           *)
(* perturbation, and the value returned when the perturbation is 0.        *)
(***************************************************************************)
MaxTierSteps == 70

TierDistances ==
  {500 * m : m \in 0..MaxTierSteps}
    \cup {4999, 5001, 14999, 15001, 29999, 30001}
    \cup {5100, 15100, 30100}

InitSpeedTier ==
  /\ pc = "speed_tier"
  /\ BuilderIdle
  /\ args \in [distance1 : TierDistances, distance2 : TierDistances]
  /\ result = None

SpeedTier ==
  /\ pc = "speed_tier"
  /\ result' = [travel_time1 |-> speed_tier_minutes(args.distance1),
                travel_time2 |-> speed_tier_minutes(args.distance2),
                minutes1 |-> estimateMinutes(args.distance1, 0),
                minutes2 |-> estimateMinutes(args.distance2, 0)]
  /\ pc' = "speed_tier_done"
  /\ UNCHANGED <<error, provider_file, demand_file, academic_file, output_files,
                 zip_db, min_coverage, provider_data, demand_data, academic_matrix,
                 final_matrix, target_matrix, missing_index, rng_seed, rng_pos,
                 filled_by, estvars, args>>

NextSpeedTier == SpeedTier

SpecSpeedTier == InitSpeedTier /\ [][NextSpeedTier]_vars

(***************************************************************************)
(* _fallback_travel_time_estimation alone: ZIP codes with every two-digit  *)
(* prefix from 80 to 99, a ZIP of one character, an empty one and one that *)
(* starts with a character that is no digit (the value 10), and a          *)
(* perturbation of up to MaxSigma standard deviations.                     *)
(***************************************************************************)
MaxSigma == 4

FallbackZips ==
  {<<a, b, 0, 0, 1>> : a \in {8, 9}, b \in 0..9} \cup {<<9>>, <<>>, <<10, 2, 1, 7, 3>>}

InitFallback ==
  /\ pc = "_fallback_travel_time_estimation"
  /\ BuilderIdle
  /\ args \in [origin_zip : FallbackZips, dest_zip : FallbackZips,
                z : {100 * k : k \in (-MaxSigma)..MaxSigma}]
  /\ result = None

Fallback ==
  /\ pc = "_fallback_travel_time_estimation"
  /\ result' = _fallback_travel_time_estimation(args.origin_zip, args.dest_zip, args.z)
  /\ pc' = "_fallback_travel_time_estimation_done"
  /\ UNCHANGED <<error, provider_file, demand_file, academic_file, output_files,
                 zip_db, min_coverage, provider_data, demand_data, academic_matrix,
                 final_matrix, target_matrix, missing_index, rng_seed, rng_pos,
                 filled_by, estvars, args>>

NextFallback == Fallback

SpecFallback == InitFallback /\ [][NextFallback]_vars

(***************************************************************************)
(* The distance functions alone, on two points of a grid of whole degrees  *)
(* that holds the two centroids: the distance lines 352-353 pass to the    *)
(* speed tiers, the distance back, the distance of each point to itself,   *)
(* and the same from generate_statewide_travel_matrix.haversine.           *)
(***************************************************************************)
MaxGridDegrees == 2

GridPoints ==
  [lat : (33..(33 + MaxGridDegrees)) \cup {42},
   lon : ((-117 - MaxGridDegrees)..(-117)) \cup {-124},
   is_float : {TRUE}]

InitDistance ==
  /\ pc = "_calculate_distance"
  /\ BuilderIdle
  /\ args \in [origin_coords : GridPoints, dest_coords : GridPoints]
  /\ result = None

CalculateDistance ==
  /\ pc = "_calculate_distance"
  /\ LET o == args.origin_coords
         d == args.dest_coords
     IN result' = [distance |-> _calculate_distance(o, d),
                   back |-> _calculate_distance(d, o),
                   origin_self |-> _calculate_distance(o, o),
                   dest_self |-> _calculate_distance(d, d),
                   haversine |-> haversine(o.lat, o.lon, d.lat, d.lon),
                   haversine_back |-> haversine(d.lat, d.lon, o.lat, o.lon),
                   haversine_self |-> haversine(o.lat, o.lon, o.lat, o.lon)]
  /\ pc' = "_calculate_distance_done"
  /\ UNCHANGED <<error, provider_file, demand_file, academic_file, output_files,
                 zip_db, min_coverage, provider_data, demand_data, academic_matrix,
                 final_matrix, target_matrix, missing_index, rng_seed, rng_pos,
                 filled_by, estvars, args>>

NextDistance == CalculateDistance

SpecDistance == InitDistance /\ [][NextDistance]_vars

(***************************************************************************)
(* The four interpolation strategies alone, each called on a frame with    *)
(* the columns origin_zip, destination_zip and travel_time_minutes: up to  *)
(* MaxRows rows from 90001 to 90001, 92001 or 95001, known or missing, the *)
(* frame labelled by a RangeIndex, by a RangeIndex reversed or by the      *)
(* labels 1..n that dropping a first row leaves.                           *)
(***************************************************************************)
InterpolationRows ==
  [origin_zip : {<<9,0,0,0,1>>},
   destination_zip : {<<9,0,0,0,1>>, <<9,2,0,0,1>>, <<9,5,0,0,1>>},
   travel_time_minutes : {NaN, 1000, 3000}]

InterpolationIndexes(n) ==
  {RangeIndex(n), [p \in 1..n |-> n - p], [p \in 1..n |-> p]}

InterpolationFrames ==
  UNION {{[columns |-> {"origin_zip", "destination_zip", "travel_time_minutes"},
           index |-> index, rows |-> rows] :
            index \in InterpolationIndexes(Len(rows))} :
         rows \in SeqsUpTo(InterpolationRows, MaxRows)}

InitInterpolation ==
  /\ pc = "interpolation"
  /\ BuilderIdle
  /\ args \in [matrix : InterpolationFrames]
  /\ result = None

\* What a call leaves: the strategy, the exception it raised, the frame it
\* returned and the caller's frame.
Returned(strategy, r) ==
  /\ result' = [strategy |-> strategy, raised |-> r.raised, matrix |-> r.matrix,
                caller |-> r.caller]
  /\ pc' = "interpolation_done"
  /\ UNCHANGED <<error, provider_file, demand_file, academic_file, output_files,
                 zip_db, min_coverage, provider_data, demand_data, academic_matrix,
                 final_matrix, target_matrix, missing_index, rng_seed, rng_pos,
                 filled_by, estvars, args>>

NearestNeighborInterpolation ==
  /\ pc = "interpolation"
  /\ Returned("nearest_neighbor", nearest_neighbor_interpolation(args.matrix))

SpatialWeightingInterpolation ==
  /\ pc = "interpolation"
  /\ Returned("spatial_weighting", spatial_weighting_interpolation(args.matrix))

\* fit_predict numbers the clusters in an order of its own.
HierarchicalClusteringInterpolation ==
  /\ pc = "interpolation"
  /\ LET n_known == Cardinality({p \in 1..Len(args.matrix.rows) : known_mask(args.matrix)[p]})
     IN \E cluster_labels \in {l \in [1..n_known -> 1..n_known] :
                                 \A i, j \in 1..n_known : l[i] = l[j] => i = j} :
          Returned("hierarchical_clustering",
                   hierarchical_clustering_interpolation(args.matrix, cluster_labels))

\* A forest predicts a mean of training targets: a value from the least to
\* the greatest known travel time.
MachineLearningInterpolation ==
  /\ pc = "interpolation"
  /\ LET n == Len(args.matrix.rows)
         known == {args.matrix.rows[p].travel_time_minutes : p \in 1..n} \ {NaN}
         n_missing == Cardinality({p \in 1..n : missing_mask(args.matrix)[p]})
         bounds == IF known = {} THEN {NaN}
                   ELSE {CHOOSE v \in known : \A w \in known : v <= w,
                         CHOOSE v \in known : \A w \in known : v >= w}
     IN \E predicted_values \in [1..n_missing -> bounds] :
          Returned("machine_learning",
                   machine_learning_interpolation(args.matrix, predicted_values))

NextInterpolation ==
  \/ NearestNeighborInterpolation
  \/ SpatialWeightingInterpolation
  \/ HierarchicalClusteringInterpolation
  \/ MachineLearningInterpolation

SpecInterpolation == InitInterpolation /\ [][NextInterpolation]_vars

(***************************************************************************)
(* TravelMatrixValidator.validate_known_city_pairs.  The table of __init__ *)
(* in hundredths of a minute; the travel matrix as read from the parquet   *)
(* file, its ZIPs strings; self.provider_data as pd.read_csv left it: None *)
(* when the file was absent, its zip_code column int64 when every cell is  *)
(* a number and then equal to no string, object otherwise.                 *)
(***************************************************************************)
known_city_pairs ==
  << [zip1 |-> <<9,0,0,0,1>>, zip2 |-> <<9,0,2,1,0>>, expected_min |-> 2500, expected_max |-> 3500],
     [zip1 |-> <<9,0,0,0,1>>, zip2 |-> <<9,0,2,1,1>>, expected_min |-> 2000, expected_max |-> 3000],
     [zip1 |-> <<9,0,0,0,1>>, zip2 |-> <<9,0,2,1,2>>, expected_min |-> 3000, expected_max |-> 4000],
     [zip1 |-> <<9,4,1,0,2>>, zip2 |-> <<9,4,1,0,5>>, expected_min |-> 1000, expected_max |-> 1500],
     [zip1 |-> <<9,4,1,0,2>>, zip2 |-> <<9,4,1,0,8>>, expected_min |-> 800, expected_max |-> 1200],
     [zip1 |-> <<9,4,1,0,2>>, zip2 |-> <<9,4,1,0,9>>, expected_min |-> 1200, expected_max |-> 1800],
     [zip1 |-> <<9,2,1,0,1>>, zip2 |-> <<9,2,1,0,2>>, expected_min |-> 800, expected_max |-> 1200],
     [zip1 |-> <<9,2,1,0,1>>, zip2 |-> <<9,2,1,0,3>>, expected_min |-> 1000, expected_max |-> 1500],
     [zip1 |-> <<9,2,1,0,1>>, zip2 |-> <<9,2,1,0,4>>, expected_min |-> 1200, expected_max |-> 1800],
     [zip1 |-> <<9,0,0,0,1>>, zip2 |-> <<9,4,1,0,2>>, expected_min |-> 36000, expected_max |-> 42000],
     [zip1 |-> <<9,0,0,0,1>>, zip2 |-> <<9,2,1,0,1>>, expected_min |-> 12000, expected_max |-> 15000],
     [zip1 |-> <<9,4,1,0,2>>, zip2 |-> <<9,2,1,0,1>>, expected_min |-> 48000, expected_max |-> 54000] >>

\* self.provider_data[self.provider_data['zip_code'] == zip]['provider_npi']
providers_in(providers, zip) ==
  {providers.rows[i].provider_npi :
     i \in {j \in 1..Len(providers.rows) :
              /\ providers.zip_dtype = "object"
              /\ providers.rows[j].zip_code = zip}}

\* Lines 87-97: the positions of the travel matrix the mask selects.
pair_mask(travel_matrix, providers, zip1, zip2) ==
  {i \in 1..Len(travel_matrix.rows) :
     \/ /\ travel_matrix.rows[i].zip_code = zip1
        /\ travel_matrix.rows[i].provider_npi \in providers_in(providers, zip2)
     \/ /\ travel_matrix.rows[i].zip_code = zip2
        /\ travel_matrix.rows[i].provider_npi \in providers_in(providers, zip1)}

\* expected_min <= mean_time <= expected_max, the mean being total / count
within_expected_range(total, count, expected_min, expected_max) ==
  expected_min * count <= total /\ total <= expected_max * count

\* validate_known_city_pairs, [raised, results]: results has a key for the
\* pairs whose mask selects a row, and only for them.
validate_known_city_pairs(travel_matrix, providers) ==
  IF providers = None THEN [raised |-> "TypeError", results |-> <<>>]
  ELSE LET selected(k) == pair_mask(travel_matrix, providers,
                                    known_city_pairs[k].zip1, known_city_pairs[k].zip2)
           total(k) == sum_over([i \in selected(k) |-> travel_matrix.rows[i].drive_minutes],
                                selected(k))
           reported == {k \in 1..Len(known_city_pairs) : selected(k) # {}}
       IN [raised |-> "",
           results |->
             [key \in {<<known_city_pairs[k].zip1, known_city_pairs[k].zip2>> : k \in reported} |->
                LET k == CHOOSE k \in reported :
                           key = <<known_city_pairs[k].zip1, known_city_pairs[k].zip2>>
                IN [expected_range |-> <<known_city_pairs[k].expected_min,
                                         known_city_pairs[k].expected_max>>,
                    actual_total |-> total(k),
                    actual_count |-> Cardinality(selected(k)),
                    is_realistic |-> within_expected_range(total(k), Cardinality(selected(k)),
                                                           known_city_pairs[k].expected_min,
                                                           known_city_pairs[k].expected_max)]]]

ReferenceZips == {<<9,0,0,0,1>>, <<9,0,2,1,0>>}

ReferenceMatrices ==
  {DataFrame({"zip_code", "provider_npi", "drive_minutes"}, rows) :
     rows \in SeqsUpTo([zip_code : ReferenceZips, provider_npi : {1, 2},
                        drive_minutes : {2400, 2500, 3500, 3600}], MaxPairs)}

ReferenceProviders ==
  {None} \cup
  {[columns |-> {"provider_npi", "zip_code"}, zip_dtype |-> dtype,
    rows |-> [i \in 1..Len(zips) |-> [provider_npi |-> i, zip_code |-> zips[i]]]] :
     dtype \in {"int64", "object"},
     zips \in SeqsUpTo(ReferenceZips, MaxReferenceProviders)}

InitBenchmark ==
  /\ pc = "validate_known_city_pairs"
  /\ BuilderIdle
  /\ args \in [travel_matrix : ReferenceMatrices, provider_data : ReferenceProviders]
  /\ result = None

ValidateKnownCityPairs ==
  /\ pc = "validate_known_city_pairs"
  /\ result' = validate_known_city_pairs(args.travel_matrix, args.provider_data)
  /\ pc' = "validate_known_city_pairs_done"
  /\ UNCHANGED <<error, provider_file, demand_file, academic_file, output_files,
                 zip_db, min_coverage, provider_data, demand_data, academic_matrix,
                 final_matrix, target_matrix, missing_index, rng_seed, rng_pos,
                 filled_by, estvars, args>>

NextBenchmark == ValidateKnownCityPairs

SpecBenchmark == InitBenchmark /\ [][NextBenchmark]_vars

(***************************************************************************)
(* build_travel_matrix called up to MaxBuilds times on one builder, the    *)
(* provider file possibly removed between two calls, and then              *)
(* get_matrix_summary.  result keeps what the summary call gave and how    *)
(* the most recent build had ended.                                        *)
(***************************************************************************)
\* The k-th smallest of the values of a sequence.
kth_smallest(values, k) ==
  CHOOSE v \in Range(values) :
    /\ Cardinality({i \in 1..Len(values) : values[i] <= v}) >= k
    /\ Cardinality({i \in 1..Len(values) : values[i] < v}) < k

\* Twice Series.median(): NaN left out, the two middle values averaged when
\* their number is even, NaN when there is none.
median_twice(series) ==
  LET values == SelectSeq(series, notna)
      n == Len(values)
  IN IF n = 0 THEN NaN
     ELSE IF n % 2 = 1 THEN 2 * kth_smallest(values, (n + 1) \div 2)
     ELSE kth_smallest(values, n \div 2) + kth_smallest(values, (n \div 2) + 1)

\* Lines 559-566: coverage is set_pairs / total_pairs and mean_travel_time is
\* total_travel_time / set_pairs.
matrix_summary(matrix) ==
  [total_pairs |-> Len(matrix.rows),
   set_pairs |-> count_set(matrix),
   total_travel_time |-> sum_over([i \in 1..Len(matrix.rows) |->
                                     IF notna(matrix.rows[i].drive_minutes)
                                     THEN matrix.rows[i].drive_minutes ELSE 0],
                                  1..Len(matrix.rows)),
   median_travel_time_twice |-> median_twice(column(matrix, "drive_minutes")),
   providers_count |-> nunique(column(matrix, "provider_npi")),
   demand_areas_count |-> Cardinality(Range(column(matrix, "zip_code")))]

\* get_matrix_summary, [raised, summary], on self.final_matrix.
get_matrix_summary(final) ==
  IF final = None THEN [raised |-> "ValueError", summary |-> None]
  ELSE [raised |-> "", summary |-> matrix_summary(final)]

InitBuilds ==
  /\ Init
  /\ ~academic_file.exists
  /\ min_coverage = 95
  /\ rng_seed = 0
  /\ zip_db = ZipCoordinatesDB([layout |-> "ZCTA5", rows |-> CentroidRows])

builds_made == IF args = None THEN 1 ELSE args.builds

\* build_travel_matrix once more on the builder, after the call before has
\* returned or raised; the provider file is as it was or gone.
BuildAgain ==
  /\ pc \in {"returned", "raised"}
  /\ builds_made < MaxBuilds
  /\ args' = [builds |-> builds_made + 1]
  /\ provider_file' \in {provider_file, AbsentFile}
  /\ pc' = "load_provider_data"
  /\ error' = NoError
  /\ UNCHANGED <<demand_file, academic_file, output_files, zip_db, min_coverage,
                 provider_data, demand_data, academic_matrix, final_matrix,
                 target_matrix, missing_index, rng_seed, rng_pos, filled_by,
                 estvars, result>>

GetMatrixSummary ==
  /\ pc \in {"idle", "returned", "raised"}
  /\ LET r == get_matrix_summary(final_matrix)
     IN result' = [after |-> pc, raised |-> r.raised, summary |-> r.summary]
  /\ pc' = "get_matrix_summary_done"
  /\ UNCHANGED <<error, provider_file, demand_file, academic_file, output_files,
                 zip_db, min_coverage, provider_data, demand_data, academic_matrix,
                 final_matrix, target_matrix, missing_index, rng_seed, rng_pos,
                 filled_by, estvars, args>>

NextBuilds ==
  \/ Build
  \/ LoadProviderData
  \/ LoadDemandData
  \/ DownloadAcademicDataset
  \/ CreateTargetMatrix
  \/ FillWithAcademicData
  \/ FillWithOsrmData
  \/ FillLoop
  \/ InterpolateRemainingGaps
  \/ ValidateMatrix
  \/ SaveMatrix
  \/ BuildAgain
  \/ GetMatrixSummary

SpecBuilds == InitBuilds /\ [][NextBuilds]_vars

(***************************************************************************)
(* generate_statewide_travel_matrix.main from line 39 on.  args holds the  *)
(* pairs of the run, each either resolved (both coordinates found) or not, *)
(* result the output file, the list out and the number of pairs gone       *)
(* through.  A line of the file is the header, a data row of a pair of     *)
(* this run, a data row an earlier run left (pair 0), or the empty line    *)
(* that to_csv writes as the header of a frame without columns.            *)
(***************************************************************************)
HeaderLine == [kind |-> "header", pair |-> 0]

BlankLine == [kind |-> "blank", pair |-> 0]

DataLine(pair) == [kind |-> "row", pair |-> pair]

\* The output file left by an earlier run, when there is one.
StatewideFiles ==
  {[exists |-> FALSE, lines |-> <<>>],
   [exists |-> TRUE, lines |-> <<HeaderLine, DataLine(0)>>]}

\* pd.DataFrame(out).to_csv(OUTPUT_PATH, index=False): the file replaced; a
\* frame made of an empty list has no columns.
to_csv_write(out) ==
  [exists |-> TRUE,
   lines |-> IF out = <<>> THEN <<BlankLine>>
             ELSE <<HeaderLine>> \o [k \in 1..Len(out) |-> DataLine(out[k])]]

\* pd.DataFrame(out).to_csv(OUTPUT_PATH, mode='a', header=False, index=False)
to_csv_append(file, out) ==
  [exists |-> TRUE,
   lines |-> file.lines \o [k \in 1..Len(out) |-> DataLine(out[k])]]

\* Lines 50-57 after the pair at position n (i + 1 = n) of total pairs:
\* [file, out].
flush_batch(file, out, n, total) ==
  IF n % batch_size = 0 \/ n = total
  THEN [file |-> IF file.exists /\ n # batch_size
                 THEN to_csv_append(file, out)
                 ELSE to_csv_write(out),
        out |-> <<>>]
  ELSE [file |-> file, out |-> out]

InitStatewide ==
  /\ pc = "main"
  /\ BuilderIdle
  /\ args \in [pairs : SeqsUpTo(BOOLEAN, MaxStatewidePairs)]
  /\ \E file \in StatewideFiles : result = [file |-> file, out |-> <<>>, i |-> 0]

\* One turn of the loop of lines 44-57.
MainLoop ==
  /\ pc = "main"
  /\ result.i < Len(args.pairs)
  /\ LET n == result.i + 1
         out == IF args.pairs[n] THEN Append(result.out, n) ELSE result.out
         flushed == flush_batch(result.file, out, n, Len(args.pairs))
     IN result' = [file |-> flushed.file, out |-> flushed.out, i |-> n]
  /\ pc' = pc
  /\ UNCHANGED <<error, provider_file, demand_file, academic_file, output_files,
                 zip_db, min_coverage, provider_data, demand_data, academic_matrix,
                 final_matrix, target_matrix, missing_index, rng_seed, rng_pos,
                 filled_by, estvars, args>>

\* Line 58, the loop over.
MainDone ==
  /\ pc = "main"
  /\ result.i = Len(args.pairs)
  /\ pc' = "main_done"
  /\ UNCHANGED <<error, provider_file, demand_file, academic_file, output_files,
                 zip_db, min_coverage, provider_data, demand_data, academic_matrix,
                 final_matrix, target_matrix, missing_index, rng_seed, rng_pos,
                 filled_by, estvars, callvars>>

NextStatewide == MainLoop \/ MainDone

SpecStatewide == InitStatewide /\ [][NextStatewide]_vars

(***************************************************************************)
(* ProviderGeocoder._geocode_address, called up to MaxCalls times on one   *)
(* geocoder.  result holds self.cache and the log of the calls: the        *)
(* address, whether a request went to the service, and what the call       *)
(* returned.  The service answers a request with a place, with an empty    *)
(* list or with an error; a place without "lat" is read as latitude 0.     *)
(***************************************************************************)
Addresses == {"address 1", "address 2"}

ServiceResponses ==
  {[kind |-> "error"], [kind |-> "empty"]}
  \cup {[kind |-> "place", lat |-> lat, lon |-> -118] : lat \in {0, 34}}

\* Lines 79-82: the entry is served when it is there, is not None and has a
\* truthy lat and a truthy lon.
served_from_cache(cache, address) ==
  /\ address \in DOMAIN cache
  /\ cache[address] # None
  /\ cache[address].lat # 0
  /\ cache[address].lon # 0

\* Lines 92-122 on the response to the request: [cache, returned].
geocode_response(cache, address, response) ==
  IF response.kind = "place"
  THEN [cache |-> [a \in DOMAIN cache \cup {address} |->
                     IF a = address THEN [lat |-> response.lat, lon |-> response.lon]
                     ELSE cache[a]],
        returned |-> [lat |-> response.lat, lon |-> response.lon]]
  ELSE [cache |-> [a \in DOMAIN cache \cup {address} |->
                     IF a = address THEN None ELSE cache[a]],
        returned |-> None]

InitGeocoder ==
  /\ pc = "_geocode_address"
  /\ BuilderIdle
  /\ args = None
  /\ result = [cache |-> <<>>, log |-> <<>>]

GeocodeAddress ==
  /\ pc = "_geocode_address"
  /\ Len(result.log) < MaxCalls
  /\ \E address \in Addresses :
       IF served_from_cache(result.cache, address)
       THEN result' = [cache |-> result.cache,
                       log |-> Append(result.log,
                                      [address |-> address, requested |-> FALSE,
                                       returned |-> [lat |-> result.cache[address].lat,
                                                     lon |-> result.cache[address].lon]])]
       ELSE \E response \in ServiceResponses :
              LET r == geocode_response(result.cache, address, response)
              IN result' = [cache |-> r.cache,
                            log |-> Append(result.log,
                                           [address |-> address, requested |-> TRUE,
                                            returned |-> r.returned])]
  /\ pc' = pc
  /\ UNCHANGED <<error, provider_file, demand_file, academic_file, output_files,
                 zip_db, min_coverage, provider_data, demand_data, academic_matrix,
                 final_matrix, target_matrix, missing_index, rng_seed, rng_pos,
                 filled_by, estvars, args>>

NextGeocoder == GeocodeAddress

SpecGeocoder == InitGeocoder /\ [][NextGeocoder]_vars

(***************************************************************************)
(* Properties.                                                             *)
(***************************************************************************)
Materialized ==
  pc \in {"_fill_with_academic_data", "_fill_with_osrm_data", "fill_loop",
          "_interpolate_remaining_gaps", "_validate_matrix", "_save_matrix",
          "returned"}

same_pair(r1, r2) == r1.zip_code = r2.zip_code /\ r1.provider_npi = r2.provider_npi

\* C1: for every provider and demand roster that passes Load (here: with no
\* blank provider id), the materialized matrix has (number of provider ids) x
\* (number of demand ZIPs) rows, no two of them with the same
\* (demand_zip, provider_id) pair.
C1_MaterializedIsCartesianProduct ==
  (Materialized /\ NaN \notin Range(column(provider_data, "NPI")))
    => /\ Len(target_matrix.rows)
            = Cardinality(Range(column(provider_data, "NPI")))
              * Cardinality(Range(column(demand_data, "zip_code")))
       /\ \A i, j \in 1..Len(target_matrix.rows) :
            i # j => ~same_pair(target_matrix.rows[i], target_matrix.rows[j])

\* C2: when the share of set entries after the fill phases is below
\* min_coverage, the build has raised and written no file: no build gets to
\* _save_matrix or returns with such a matrix, and a build that _validate_matrix
\* ended has written nothing.
C2_LowCoverageNotPersisted ==
  /\ (pc \in {"_save_matrix", "returned"}) => ~coverage_below(target_matrix, min_coverage)
  /\ (pc = "raised" /\ error.phase = "_validate_matrix")
       => /\ coverage_below(target_matrix, min_coverage)
          /\ output_files = {}
          /\ final_matrix = None

C2_Witness ==
  /\ pc = "raised"
  /\ error = [type |-> "ValueError", phase |-> "_validate_matrix"]
  /\ coverage_below(target_matrix, min_coverage)
  /\ output_files = {}

PhaseOrder ==
  <<"idle", "load_provider_data", "load_demand_data", "download_academic_dataset",
    "_create_target_matrix", "_fill_with_academic_data", "_fill_with_osrm_data",
    "fill_loop", "_interpolate_remaining_gaps", "_validate_matrix", "_save_matrix",
    "returned">>

rank(p) == CHOOSE i \in 1..Len(PhaseOrder) : PhaseOrder[i] = p

InOrderStep ==
  pc' # pc =>
    \/ pc' = "raised"
    \/ rank(pc') = rank(pc) + 1
    \/ pc = "_fill_with_osrm_data" /\ pc' = "_interpolate_remaining_gaps"

\* C3: the phases run in the order Load, Materialize, Authoritative merge,
\* Computed fill, Interpolated fill, Validate, Persist, each starting when the
\* one before it has completed, Persist only after Validate has succeeded; and
\* a build ends persisted, or failed in validation, or raised by Load on a
\* malformed input.
C3_PhasesInOrderThreeOutcomes ==
  /\ [][InOrderStep]_vars
  /\ [](pc = "returned" =>
          {"travel_matrix.csv", "travel_matrix_summary.json"}
             \subseteq {f.name : f \in output_files})
  /\ [](pc = "raised" =>
          error.phase \in {"load_provider_data", "load_demand_data", "_validate_matrix"})

has_coordinates(zip) == get_coordinates(zip_db, zip) # None

\* The ZIP code _fill_with_osrm_data looks a row's provider up under.
provider_zip_of(row) ==
  str_prefix(provider_rows(provider_data, row.provider_npi)[1].zip_code, 5)

ComputedFillDone ==
  pc \in {"_interpolate_remaining_gaps", "_validate_matrix", "_save_matrix", "returned"}

\* C4: after Computed fill every matrix entry has a set travel time, the
\* fallback heuristic supplying it when an endpoint's ZIP has no coordinate;
\* and the phase raises on no row with an endpoint without coordinate.
C4_ComputedFillSetsEveryEntry ==
  /\ ComputedFillDone =>
       \A i \in 1..Len(target_matrix.rows) : notna(target_matrix.rows[i].drive_minutes)
  /\ (pc = "raised" /\ error.phase = "_fill_with_osrm_data") =>
       LET row == target_matrix.rows[Head(missing_index)]
       IN has_coordinates(provider_zip_of(row)) /\ has_coordinates(row.zip_code)

FillPhases ==
  {"_fill_with_academic_data", "_fill_with_osrm_data", "fill_loop",
   "_interpolate_remaining_gaps"}

AppendOnlyStep ==
  pc \in FillPhases =>
    /\ Len(target_matrix'.rows) = Len(target_matrix.rows)
    /\ \A i \in 1..Len(target_matrix.rows) :
         /\ same_pair(target_matrix'.rows[i], target_matrix.rows[i])
         /\ notna(target_matrix.rows[i].drive_minutes)
              => target_matrix'.rows[i].drive_minutes = target_matrix.rows[i].drive_minutes

\* C5: a step of a fill phase (Authoritative merge, Computed fill, Interpolated
\* fill) adds and removes no row, and leaves every entry that is already set
\* as it is: it writes only entries that were unset.
C5_FillPhasesAppendOnly == [][AppendOnlyStep]_vars

C5_Witness ==
  /\ pc = "_interpolate_remaining_gaps"
  /\ Len(target_matrix.rows) >= 2
  /\ \E i, j \in 1..Len(target_matrix.rows) :
       /\ i < j
       /\ filled_by[i] = "computed" /\ filled_by[j] = "computed"
       /\ target_matrix.rows[i].drive_minutes # target_matrix.rows[j].drive_minutes

InterpolatedFillStep ==
  (pc = "_interpolate_remaining_gaps"
   /\ missing_labels(target_matrix, "drive_minutes") # <<>>)
    => /\ pc' = "_validate_matrix"
       /\ missing_labels(target_matrix', "drive_minutes") = <<>>

\* C6: when entries are still unset after Computed fill, Interpolated fill
\* completes without error and returns the matrix with those entries set.
C6_InterpolatedFillSetsTheUnset == [][InterpolatedFillStep]_vars

\* The rows of the reference dataset for a pair: origin the provider's ZIP,
\* destination the demand ZIP.
reference_minutes(row) ==
  {academic_matrix.rows[k].travel_time_minutes : k \in
     {k \in 1..Len(academic_matrix.rows) :
        /\ academic_matrix.rows[k].origin_zip = provider_zip_of(row)
        /\ academic_matrix.rows[k].destination_zip = row.zip_code}}

\* C7: when the reference dataset is available, every matrix pair that matches
\* one of its rows has that row's travel time when Computed fill starts.
C7_AuthoritativeMergeSetsMatches ==
  (pc = "_fill_with_osrm_data" /\ academic_file.exists) =>
    \A i \in 1..Len(target_matrix.rows) :
      (/\ provider_rows(provider_data, target_matrix.rows[i].provider_npi) # <<>>
       /\ reference_minutes(target_matrix.rows[i]) # {})
        => target_matrix.rows[i].drive_minutes \in reference_minutes(target_matrix.rows[i])

\* C8: every entry of the built matrix carries a fill_source, the phase that
\* set its value (authoritative, computed or interpolated).
C8_EntriesCarryFillSource ==
  pc = "returned" =>
    \A i \in 1..Len(final_matrix.rows) :
      /\ "fill_source" \in DOMAIN final_matrix.rows[i]
      /\ final_matrix.rows[i].fill_source = filled_by[i]

persisted_matrices == {f.content : f \in {g \in output_files : g.name = "travel_matrix.csv"}}

\* C9: every entry of a matrix that passed validation and was persisted has
\* travel_minutes in [5, 600].
C9_PersistedInRange ==
  \A m \in persisted_matrices :
    \A i \in 1..Len(m.rows) :
      /\ notna(m.rows[i].drive_minutes)
      /\ 500 <= m.rows[i].drive_minutes
      /\ m.rows[i].drive_minutes <= 60000

C9_Witness ==
  /\ pc = "returned"
  /\ \E m \in persisted_matrices :
       /\ \E i \in 1..Len(m.rows) : m.rows[i].drive_minutes = 60000
       /\ \E i \in 1..Len(m.rows) : m.rows[i].drive_minutes < 60000

\* C10: for every distance and every perturbation, the value estimateMinutes
\* returns is at least 5 and at most 600.
C10_EstimateInRange ==
  pc = "estimated" =>
    /\ notna(est_minutes)
    /\ 500 <= est_minutes
    /\ est_minutes <= 60000

C10_Witness ==
  /\ pc = "estimated"
  /\ notna(est_distance)
  /\ speed_tier_minutes(est_distance) + est_noise < 500
  /\ est_minutes = 500

\* The multiplier of the tier a distance belongs to, in hundredths: each of
\* 50, 150 and 300 miles belongs to the lower tier.
tier_factor(distance) ==
  IF distance <= 5000 THEN 171
  ELSE IF distance <= 15000 THEN 109
  ELSE IF distance <= 30000 THEN 92
  ELSE 110

\* t is x rounded down to the hundredth of a minute, x given in 1e-4 minutes.
is_hundredths_of(t, x) == 100 * t <= x /\ x < 100 * (t + 1)

\* C11: without the perturbation and the clamp the estimate is d x 1.71 for
\* d <= 50, d x 1.09 for 50 < d <= 150, d x 0.92 for 150 < d <= 300 and
\* d x 1.0 x 1.1 for d > 300, each boundary belonging to the lower tier.
C11_SpeedTierFormula ==
  pc = "speed_tier_done" =>
    is_hundredths_of(result.travel_time1,
                     args.distance1 * tier_factor(args.distance1))

C11_Witness ==
  /\ pc = "speed_tier_done"
  /\ args.distance1 = 15000
  /\ result.travel_time1 = 16350
  /\ args.distance2 = 30001
  /\ result.travel_time2 = 33001

\* The two-digit prefix of a ZIP code, read as a number.
zip_prefix(zip) == int_value(str_prefix(zip, 2))

\* C12: the fallback returns 180 when neither ZIP starts with a prefix from 90
\* to 96, one fixed constant between 120 and 150 when exactly one does, and
\* when both do a value derived from the absolute difference of the two-digit
\* prefixes (15 minutes per unit, plus the perturbation) clamped to [10, 120].
C12_FallbackMinutes ==
  pc = "_fallback_travel_time_estimation_done" =>
    LET o == is_ca(args.origin_zip)
        d == is_ca(args.dest_zip)
        rough == abs(zip_prefix(args.origin_zip) - zip_prefix(args.dest_zip)) * 1500
                   + 10 * args.z
    IN /\ (~o /\ ~d) => result.value = 18000
       /\ (o # d) => /\ result.value = InterstateMinutes
                     /\ 12000 <= InterstateMinutes /\ InterstateMinutes <= 15000
       /\ (o /\ d) => /\ 1000 <= result.value /\ result.value <= 12000
                      /\ result.value = IF rough < 1000 THEN 1000
                                        ELSE IF rough > 12000 THEN 12000 ELSE rough

C12_Witness ==
  /\ pc = "_fallback_travel_time_estimation_done"
  /\ is_ca(args.origin_zip) /\ is_ca(args.dest_zip)
  /\ zip_prefix(args.origin_zip) = 90 /\ zip_prefix(args.dest_zip) = 96
  /\ args.z = 400
  /\ result.value = 12000

\* C13: the distance Computed fill passes to the speed tiers for a pair with
\* both coordinates is the great-circle distance times the road factor 1.15,
\* the distance haversine returns, to within two percent.
C13_DistanceHasRoadFactor ==
  pc = "_calculate_distance_done" =>
    abs(100 * result.distance - 100 * result.haversine) <= 2 * result.haversine

\* C15: the distance is symmetric and zero on the diagonal.
C15_DistanceSymmetricZeroDiagonal ==
  pc = "_calculate_distance_done" =>
    /\ result.distance = result.back
    /\ result.origin_self = 0
    /\ result.dest_self = 0
    /\ result.haversine = result.haversine_back
    /\ result.haversine_self = 0

C15_Witness ==
  /\ pc = "_calculate_distance_done"
  /\ args.origin_coords.lat # args.dest_coords.lat
  /\ args.origin_coords.lon # args.dest_coords.lon
  /\ result.distance > 10000
  /\ result.distance = result.back
  /\ result.origin_self = 0

\* The speed tier of a distance: 1 up to 50 miles, 2 up to 150, 3 up to 300,
\* 4 beyond.
tier_of(distance) ==
  IF distance <= 5000 THEN 1
  ELSE IF distance <= 15000 THEN 2
  ELSE IF distance <= 30000 THEN 3
  ELSE 4

\* C14: for distances d1 < d2 of the same speed tier the estimate without
\* perturbation for d1 is at most the one for d2, before and after the clamp.
C14_MonotoneWithinTier ==
  (/\ pc = "speed_tier_done"
   /\ args.distance1 < args.distance2
   /\ tier_of(args.distance1) = tier_of(args.distance2))
    => /\ result.travel_time1 <= result.travel_time2
       /\ result.minutes1 <= result.minutes2

C14_Witness ==
  /\ pc = "speed_tier_done"
  /\ args.distance1 = 15001
  /\ args.distance2 = 30000
  /\ result.minutes1 < result.minutes2

\* The travel times a frame holds under each label.
known_entries(matrix) ==
  {<<index_of(matrix)[p], matrix.rows[p].travel_time_minutes>> :
     p \in {q \in 1..Len(matrix.rows) : known_mask(matrix)[q]}}

C17_FullyKnownUnchanged ==
  (/\ pc = "interpolation_done"
   /\ \A p \in 1..Len(args.matrix.rows) : known_mask(args.matrix)[p])
    => /\ result.raised = ""
       /\ result.matrix = args.matrix
       /\ result.caller = args.matrix

C17_Witness ==
  /\ pc = "interpolation_done"
  /\ result.strategy = "machine_learning"
  /\ Len(args.matrix.rows) = 2
  /\ \A p \in 1..Len(args.matrix.rows) : known_mask(args.matrix)[p]
  /\ index_of(args.matrix) # RangeIndex(2)
  /\ result.matrix = args.matrix

\* C18: Load, Materialize and Computed fill run a second time on the same
\* inputs, on the same builder or on a new one, the perturbation drawn from
\* the same seeded source, give the matrix of the first run entry by entry.
C18_RerunGivesSameMatrix ==
  (pc = "_interpolate_remaining_gaps" /\ result # None)
    => target_matrix = result.first

C18_Witness ==
  /\ pc = "_interpolate_remaining_gaps"
  /\ result # None
  /\ result.builder = "same"
  /\ rng_pos = 2
  /\ Len(target_matrix.rows) >= 2
  /\ target_matrix.rows[1].drive_minutes # target_matrix.rows[2].drive_minutes
  /\ target_matrix = result.first

\* C19: validation changes a travel time only if it is negative, and then
\* to 5 minutes; a travel time above 300 minutes stays as it is, no row is
\* dropped, and validation raises only for the coverage, whatever negative or
\* above-300 entries the matrix has.
validated == pc \in {"_save_matrix", "raised"} /\ args # None

C19_ValidationCorrectsNegativesOnly ==
  validated =>
    LET before == args.matrix.rows
        after == target_matrix.rows
        n == Len(before)
        unset == Cardinality({i \in 1..n : before[i].drive_minutes = NaN})
    IN /\ Len(after) = n
       /\ \A i \in 1..n :
            /\ after[i].zip_code = before[i].zip_code
            /\ after[i].provider_npi = before[i].provider_npi
            /\ after[i].drive_minutes # before[i].drive_minutes
                 => (before[i].drive_minutes # NaN /\ before[i].drive_minutes < 0
                     /\ after[i].drive_minutes = 500)
            /\ (pc = "_save_matrix" /\ before[i].drive_minutes # NaN
                  /\ before[i].drive_minutes < 0) => after[i].drive_minutes = 500
            /\ (before[i].drive_minutes # NaN /\ before[i].drive_minutes > 30000)
                 => after[i].drive_minutes = before[i].drive_minutes
       /\ pc = "raised" <=> (n > 0 /\ (n - unset) * 100 < min_coverage * n)

C19_Witness ==
  /\ validated
  /\ pc = "_save_matrix"
  /\ Len(target_matrix.rows) = 3
  /\ args.matrix.rows[1].drive_minutes = -100
  /\ target_matrix.rows[1].drive_minutes = 500
  /\ args.matrix.rows[2].drive_minutes = 45000
  /\ target_matrix.rows[2].drive_minutes = 45000
  /\ target_matrix.rows[3].drive_minutes = 30001

\* C20: when the provider input or the demand input is absent or lacks one
\* of its required columns, build_travel_matrix raises in load_provider_data
\* or load_demand_data: no matrix is materialized or filled, and nothing is
\* persisted.
provider_input_unusable ==
  ~provider_file.exists \/ ~({"provider_npi", "zip_code"} \subseteq provider_file.columns)

demand_input_unusable ==
  ~demand_file.exists \/ ~({"zip_code", "demand_score"} \subseteq demand_file.columns)

C20_UnusableInputRaisesDuringLoad ==
  /\ provider_input_unusable => pc \in {"idle", "load_provider_data", "raised"}
  /\ demand_input_unusable
       => pc \in {"idle", "load_provider_data", "load_demand_data", "raised"}
  /\ (provider_input_unusable \/ demand_input_unusable)
       => /\ pc = "raised"
               => /\ error.phase \in {"load_provider_data", "load_demand_data"}
                  /\ error.type \in {"FileNotFoundError", "ValueError"}
          /\ academic_matrix = None
          /\ target_matrix = None
          /\ final_matrix = None
          /\ filled_by = <<>>
          /\ output_files = {}

C20_Witness ==
  /\ ~provider_input_unusable
  /\ Len(provider_file.rows) > 0
  /\ demand_file.exists
  /\ demand_input_unusable
  /\ pc = "raised"
  /\ error = [type |-> "ValueError", phase |-> "load_demand_data"]
  /\ provider_data # None
  /\ target_matrix = None
  /\ output_files = {}

\* C21: in each of the three layouts, get_coordinates(zip_code) returns the
\* coordinates of the file's row for the ZIP that zip_code padded to five
\* digits names (the last such row), and None when the file has no row for it.
rows_for_zip(file, zip_code) ==
  {i \in 1..Len(file.rows) : zfill(file.rows[i].zip, 5) = zfill(zip_code, 5)}

C21_GetReturnsLoadedCoordinates ==
  pc = "get_coordinates_done" =>
    LET matching == rows_for_zip(args.file, args.zip_code)
        last == CHOOSE i \in matching : \A j \in matching : j <= i
    IN IF matching = {} THEN result.coords = None
       ELSE /\ result.coords # None
            /\ result.coords.lat = args.file.rows[last].lat
            /\ result.coords.lon = args.file.rows[last].lon

\* C22: batch_get_coordinates returns a mapping whose keys are the codes given
\* for which get_coordinates returns coordinates, each with the value
\* get_coordinates returns for it; the codes that miss are left out.
C22_BatchGetKeepsTheResolved ==
  pc = "batch_get_coordinates_done" =>
    /\ DOMAIN result.results =
         {z \in Range(args.zip_codes) : get_coordinates(zip_db, z) # None}
    /\ \A z \in DOMAIN result.results :
         result.results[z] = get_coordinates(zip_db, z)

C22_Witness ==
  /\ pc = "batch_get_coordinates_done"
  /\ args.file.layout = "ZCTA5"
  /\ args.zip_codes = <<<<1,0,0,1>>, <<9,5,5,3,1>>>>
  /\ DOMAIN result.results = {<<1,0,0,1>>}
  /\ result.results[<<1,0,0,1>>].lat = 42

\* C23: for every pair of the known-route table the result of
\* validate_known_city_pairs has an entry, and the entry's flag is true
\* exactly when the mean of the matrix entries between the pair's two ZIPs
\* lies in [expected_min, expected_max], the bounds included.
entries_between(travel_matrix, providers, zip1, zip2) ==
  LET at(zip) == {providers.rows[j].provider_npi :
                    j \in {q \in 1..Len(providers.rows) :
                             providers.rows[q].zip_code = zip}}
  IN {i \in 1..Len(travel_matrix.rows) :
        \/ travel_matrix.rows[i].zip_code = zip1 /\ travel_matrix.rows[i].provider_npi \in at(zip2)
        \/ travel_matrix.rows[i].zip_code = zip2 /\ travel_matrix.rows[i].provider_npi \in at(zip1)}

C23_EveryReferencePairReported ==
  pc = "validate_known_city_pairs_done" =>
    /\ result.raised = ""
    /\ \A k \in 1..Len(known_city_pairs) :
         LET pair == known_city_pairs[k]
             key == <<pair.zip1, pair.zip2>>
             matching == entries_between(args.travel_matrix, args.provider_data,
                                         pair.zip1, pair.zip2)
             total == sum_over([i \in matching |-> args.travel_matrix.rows[i].drive_minutes],
                               matching)
         IN /\ key \in DOMAIN result.results
            /\ result.results[key].is_realistic
                 <=> /\ matching # {}
                     /\ pair.expected_min * Cardinality(matching) <= total
                     /\ total <= pair.expected_max * Cardinality(matching)

\* C24: nearest_neighbor_interpolation writes into each unknown entry the
\* average of the travel times of its min(5, number of known entries) nearest
\* known rows, weighted by the inverse of the distance, wherever the known
\* and the unknown rows stand in the matrix; with a known entry in the
\* matrix no written value is null.
nearest_known_average(matrix, p) ==
  LET known == {q \in 1..Len(matrix.rows) : known_mask(matrix)[q]}
      feature(q) == int_value(str_prefix(matrix.rows[q].destination_zip, 2))
      distance == [q \in known |-> abs(feature(p) - feature(q))]
      k == py_min(5, Cardinality(known))
      nearest == CHOOSE J \in SUBSET known :
                   /\ Cardinality(J) = k
                   /\ \A j \in J : \A o \in known \ J : distance[j] <= distance[o]
  IN weighted_average(nearest,
                      [q \in nearest |-> matrix.rows[q].travel_time_minutes],
                      [q \in nearest |-> distance[q]])

C24_NearestNeighborAveragesKnownRows ==
  (/\ pc = "interpolation_done"
   /\ result.strategy = "nearest_neighbor"
   /\ result.raised = ""
   /\ \E q \in 1..Len(args.matrix.rows) : known_mask(args.matrix)[q])
    => \A p \in 1..Len(args.matrix.rows) :
         missing_mask(args.matrix)[p]
           => /\ result.matrix.rows[p].travel_time_minutes # NaN
              /\ result.matrix.rows[p].travel_time_minutes
                   = nearest_known_average(args.matrix, p)

\* C25: after any number of build_travel_matrix calls on one builder,
\* get_matrix_summary describes the matrix of the most recent call when that
\* call succeeded, and raises when no call was made or the most recent call
\* failed.
C25_SummaryOfMostRecentBuild ==
  pc = "get_matrix_summary_done" =>
    IF result.after = "returned"
    THEN /\ result.raised = ""
         /\ result.summary = matrix_summary(target_matrix)
    ELSE result.raised = "ValueError"

\* C26: when generate_statewide_travel_matrix.main is over, the output file
\* is the header followed by one row for each pair of the run whose two
\* coordinates resolved, in the order of the pairs, whether the file was
\* there before the run or not and however many batches the pairs make.
C26_OutputIsHeaderAndResolvedPairs ==
  pc = "main_done" =>
    LET resolved == SelectSeq([n \in 1..Len(args.pairs) |-> n],
                              LAMBDA n : args.pairs[n])
    IN /\ result.file.exists
       /\ result.file.lines
            = <<HeaderLine>> \o [k \in 1..Len(resolved) |-> DataLine(resolved[k])]

\* C27: an interpolation strategy called on a matrix with an unknown entry and
\* no known entry raises to the caller and returns no matrix, and the
\* caller's matrix is as it was before the call.
nothing_known(matrix) ==
  /\ Len(matrix.rows) > 0
  /\ \A p \in 1..Len(matrix.rows) : isna(matrix.rows[p].travel_time_minutes)

C27_NothingKnownRaises ==
  (pc = "interpolation_done" /\ nothing_known(args.matrix))
    => /\ result.raised # ""
       /\ result.matrix = None
       /\ result.caller = args.matrix

C27_Witness ==
  /\ pc = "interpolation_done"
  /\ nothing_known(args.matrix)
  /\ Len(args.matrix.rows) = 2
  /\ args.matrix.index = RangeIndex(2)
  /\ result.strategy = "spatial_weighting"
  /\ result.raised = "ValueError"
  /\ result.caller = args.matrix

\* C28: once _geocode_address has returned for an address, None or
\* coordinates, every later call with that address returns the same without a
\* request to the geocoding service.
C28_GeocodingAnswersAreCached ==
  \A i, j \in 1..Len(result.log) :
    (pc = "_geocode_address" /\ i < j /\ result.log[i].address = result.log[j].address)
      => /\ ~result.log[j].requested
         /\ result.log[j].returned = result.log[i].returned

\* C29: for every pair of ZIP strings the fallback returns a value from 10 to
\* 180 minutes, and neither its 150.0 return nor its 45.0 return is taken:
\* a value that took no draw is the 180 or the constant of line 399.
C29_FallbackDefaultsUnreachable ==
  pc = "_fallback_travel_time_estimation_done" =>
    /\ 1000 <= result.value /\ result.value <= 18000
    /\ result.draws = 0 => result.value \in {18000, InterstateMinutes}
    /\ result.draws = 1 => (is_ca(args.origin_zip) /\ is_ca(args.dest_zip))

C29_Witness ==
  /\ pc = "_fallback_travel_time_estimation_done"
  /\ args.origin_zip = <<10, 2, 1, 7, 3>>
  /\ int_raises(str_prefix(args.origin_zip, 2))
  /\ args.dest_zip = <<9, 6, 0, 0, 1>>
  /\ result.draws = 0
  /\ result.value = InterstateMinutes

\* C30: across tiers the estimate without perturbation is not monotone: from
\* 50 miles to the next mile it drops (85.5 minutes at 50 miles, 55.59 at 51),
\* from 150 miles to the next mile it drops (163.5 at 150, 138.92 at 151), and
\* from the third tier to the fourth it rises.
C30_DropsAtTierBoundaries ==
  pc = "speed_tier_done" =>
    /\ (args.distance1 = 5000 /\ 5000 < args.distance2 /\ args.distance2 <= 5100)
         => result.minutes1 > result.minutes2
    /\ (args.distance1 = 5000 /\ args.distance2 = 5100)
         => (result.minutes1 = 8550 /\ result.minutes2 = 5559)
    /\ (args.distance1 = 15000 /\ 15000 < args.distance2 /\ args.distance2 <= 15100)
         => result.minutes1 > result.minutes2
    /\ (args.distance1 = 15000 /\ args.distance2 = 15100)
         => (result.minutes1 = 16350 /\ result.minutes2 = 13892)
    /\ (tier_of(args.distance1) = 3 /\ tier_of(args.distance2) = 4)
         => result.minutes1 < result.minutes2

C30_Witness ==
  /\ pc = "speed_tier_done"
  /\ args.distance1 = 15000
  /\ args.distance2 = 15100
  /\ tier_of(args.distance1) = 2
  /\ tier_of(args.distance2) = 3
  /\ result.minutes1 = 16350
  /\ result.minutes2 = 13892

====
